---- MODULE Spec2Model ----
(***************************************************************************)
(* Order-reconciliation gateway: inbound order creation (main.py,          *)
(* req_methods.py, the three provider adapters), the Order Store           *)
(* (database.py), the notifier (bot.py) and the reconciliation scheduler   *)
(* (main.py, check_order_status).                                          *)
(*                                                                         *)
(* Encoding of JSON: an object is a record with one field per key.  A key  *)
(* whose value type differs between messages has one field per type:       *)
(*   data (object) / data_list (array), status (string) / status_bool.     *)
(* A missing key is a missing field (DOMAIN decides a KeyError).  Python's *)
(* None, the empty string and 0 are all falsy for all([...]); an absent    *)
(* request field is written "" (strings) or 0 (quantity).                  *)
(***************************************************************************)
EXTENDS Integers, Sequences, FiniteSets, TLC

VARIABLES
    db,         \* the three order tables: table name -> sequence of rows
    handlers,   \* the inbound request handlers (skyshop_api coroutines)
    pc,         \* position of check_order_status
    orders,     \* check_order_status: vp_orders, mg_orders, jm_orders still to visit
    cur,        \* check_order_status: the update being awaited
    uuid,       \* number of uuid4 values drawn so far
    chk,        \* history: the last status check of the scheduler
    swept,      \* history: the checks of the current sweep
    last_op,    \* history: the last direct Order Store call (store contract)
    app         \* position of the application: startup_event, shutdown_event

vars == <<db, handlers, pc, orders, cur, uuid, chk, swept, last_op, app>>

----------------------------------------------------------------------------
\* Bounds of the model.

\* Orders accepted for creation during a run (rows over all tables).
MaxOrders == 2
\* Concurrent inbound handlers.
MaxHandlers == 1
\* Rows per table in the initial stores of the store-contract specification.
MaxRows == 2
\* Jollymax creations over a run (each draws two uuid4 values).
MaxJM == 1
\* Rows over all tables in the initial stores of the sweep specification.
MaxSweepRows == 2

----------------------------------------------------------------------------
\* Configuration (config.py): status vocabularies and operators.

VP_STATUSES == {"waiting", "success", "error"}
MG_STATUSES == {"processing", "completed", "refunded"}
JM_STATUSES == {"waiting", "success", "failed"}
TG_ADMINS == <<"admin1", "admin2">>

\* A status no vocabulary holds.
UnknownStatus == "unknown"

\* The statuses the scheduler re-checks (the arguments of getOrderStatus*).
Checkable(t) ==
    CASE t = "vp_orders" -> "waiting"
      [] t = "mg_orders" -> "processing"
      [] t = "jm_orders" -> "waiting"

Statuses(t) ==
    CASE t = "vp_orders" -> VP_STATUSES
      [] t = "mg_orders" -> MG_STATUSES
      [] t = "jm_orders" -> JM_STATUSES

Tables == {"vp_orders", "mg_orders", "jm_orders"}

\* json.dumps: the text of a JSON value.
Dumps(v) == <<"json", v>>

----------------------------------------------------------------------------
\* Order Store (database.py).  A table is the sequence of its rows in
\* insertion order; id is the autoincrement primary key.

NextId(table) ==
    IF table = <<>> THEN 1
    ELSE 1 + CHOOSE m \in {table[i].id : i \in 1..Len(table)} :
                 \A j \in 1..Len(table) : table[j].id <= m

createOrderVP(table, user_id, zone_id, quantity, price, product, api_name, order_id, email_user, status, order_details) ==
    Append(table, [id |-> NextId(table), user_id |-> user_id, zone_id |-> zone_id,
                   quantity |-> quantity, price |-> price, product |-> product,
                   api_name |-> api_name, order_id |-> order_id,
                   email_user |-> email_user, status |-> status,
                   order_details |-> order_details])

createOrderMG(table, user_id, zone_id, quantity, price, product, api_name, order_id, email_user, status, order_details) ==
    Append(table, [id |-> NextId(table), user_id |-> user_id, zone_id |-> zone_id,
                   quantity |-> quantity, price |-> price, product |-> product,
                   api_name |-> api_name, order_id |-> order_id,
                   email_user |-> email_user, status |-> status,
                   order_details |-> order_details])

createOrderJM(table, user_id, zone_id, quantity, price, product, api_name, order_id, message_id, email_user, status, order_details) ==
    Append(table, [id |-> NextId(table), user_id |-> user_id, zone_id |-> zone_id,
                   quantity |-> quantity, price |-> price, product |-> product,
                   api_name |-> api_name, order_id |-> order_id,
                   message_id |-> message_id, email_user |-> email_user,
                   status |-> status, order_details |-> order_details])

\* A status query that returns every row of the table.
getOrderStatusVPAll(table, status) == table

getOrderStatusVP(table, status) ==
    LET Match(row) == row.status = status IN SelectSeq(table, Match)

getOrderStatusMG(table, status) ==
    LET Match(row) == row.status = status IN SelectSeq(table, Match)

getOrderStatusJM(table, status) ==
    LET Match(row) == row.status = status IN SelectSeq(table, Match)

\* status / new_order_details: [given |-> BOOLEAN, value |-> ...]; not given is
\* Python's None, which keeps the column.
Arg(v) == [given |-> TRUE, value |-> v]
NoStatus == [given |-> FALSE, value |-> ""]
NoDetails == [given |-> FALSE, value |-> Dumps([none |-> TRUE])]

\* The store call a step of the contract model made, with its arguments.
NoCall == [op |-> "none", order_id |-> "", message_id |-> "", status |-> NoStatus,
           new_order_details |-> NoDetails]

\* An update that also clears the product column.
SetRowAndProduct(row, status, new_order_details) ==
    [row EXCEPT !.status = IF status.given THEN status.value ELSE @,
                !.order_details = IF new_order_details.given
                                  THEN new_order_details.value ELSE @,
                !.product = ""]

\* An update that writes NULL into a column whose argument is omitted.
SetRowOmittedAsNull(row, status, new_order_details) ==
    [row EXCEPT !.status = IF status.given THEN status.value ELSE "",
                !.order_details = IF new_order_details.given
                                  THEN new_order_details.value ELSE Dumps([none |-> TRUE])]

SetRow(row, status, new_order_details) ==
    [row EXCEPT !.status = IF status.given THEN status.value ELSE @,
                !.order_details = IF new_order_details.given
                                  THEN new_order_details.value ELSE @]

\* A Provider A update without its WHERE clause: every row is written.
updateOrderVPEveryRow(table, order_id, status, new_order_details) ==
    [i \in 1..Len(table) |-> SetRow(table[i], status, new_order_details)]

updateOrderVP(table, order_id, status, new_order_details) ==
    [i \in 1..Len(table) |->
        IF table[i].order_id = order_id
        THEN SetRow(table[i], status, new_order_details)
        ELSE table[i]]

updateOrderMG(table, order_id, status, new_order_details) ==
    [i \in 1..Len(table) |->
        IF table[i].order_id = order_id
        THEN SetRow(table[i], status, new_order_details)
        ELSE table[i]]

\* The Provider C update keyed by order_id alone, as the A and B updates are.
updateOrderJMByOrderId(table, order_id, message_id, status, new_order_details) ==
    [i \in 1..Len(table) |->
        IF table[i].order_id = order_id
        THEN SetRow(table[i], status, new_order_details)
        ELSE table[i]]

updateOrderJM(table, order_id, message_id, status, new_order_details) ==
    [i \in 1..Len(table) |->
        IF table[i].order_id = order_id /\ table[i].message_id = message_id
        THEN SetRow(table[i], status, new_order_details)
        ELSE table[i]]

deleteOrderVP(table, order_id) ==
    LET Keep(row) == row.order_id # order_id IN SelectSeq(table, Keep)

deleteOrderMG(table, order_id) ==
    LET Keep(row) == row.order_id # order_id IN SelectSeq(table, Keep)

deleteOrderJM(table, order_id, message_id) ==
    LET Keep(row) == ~(row.order_id = order_id /\ row.message_id = message_id)
    IN  SelectSeq(table, Keep)

----------------------------------------------------------------------------
\* Replies of the providers to one HTTP POST (httpx): the call raises
\* (transport failure, body that is not JSON) or returns a status code and a
\* JSON body.

NoBody == [none |-> TRUE]
Raised == [exc |-> TRUE, status_code |-> 0, body |-> NoBody]
Http(status_code, body) == [exc |-> FALSE, status_code |-> status_code, body |-> body]

\* Identifiers the providers assign; a provider may repeat one.
VPHandles == {"T1", "T2"}
MGHandles == {"MG-9", "MG-7"}

VPCreateReplies ==
    {Raised, Http(500, NoBody),
     Http(200, [result |-> FALSE, message |-> "rejected"]),
     Http(200, [result |-> TRUE, message |-> "no data"])}
    \cup {Http(200, [result |-> TRUE, data |-> [trxid |-> t]]) : t \in VPHandles}

MGCreateReplies ==
    {Raised, Http(500, NoBody),
     Http(200, [status_bool |-> FALSE, err_message |-> "rejected"])}
    \cup {Http(200, [status_bool |-> TRUE, account_details |-> [order_id |-> t]]) :
            t \in MGHandles}

JMCreateReplies ==
    {Raised, Http(500, NoBody),
     Http(200, [code |-> "APPLY_FAIL", msg |-> "rejected"]),
     Http(200, [code |-> "APPLY_SUCCESS", msg |-> "ok"])}

\* str(error) of a caught exception, and an httpx.Response object (which
\* json.dumps cannot serialize).
StrError(e) == [data_str |-> e]
ResponseObject(reply) == [status_code |-> reply.status_code]

----------------------------------------------------------------------------
\* req_methods.py, order creation.  Each operator is the adapter's code from
\* the reply of the POST to its next await: either the store insert
\* (act = "insert") or its return value (act = "return").

ToInsert(order_id, message_id, body) ==
    [act |-> "insert", order_id |-> order_id, message_id |-> message_id,
     order_details |-> Dumps(body), ret |-> NoBody]
ToReturn(ret) ==
    [act |-> "return", order_id |-> "", message_id |-> "",
     order_details |-> Dumps(NoBody), ret |-> ret]

\* A handle returned to the orchestrator: a string (A, B) or a pair (C).
Handle(order_id) == [handle |-> order_id]
HandleJM(order_id, message_id) == [handle |-> order_id, message_id |-> message_id]

ExceptionCreating(user_id, e) ==
    [status |-> "exception", user_id |-> user_id,
     message |-> "function error: (creating order)", data_str |-> e]
RequestFailed(user_id, reply) ==
    [status |-> "error", user_id |-> user_id, message |-> "the request failed",
     data_resp |-> ResponseObject(reply)]
\* A rejection result that drops the provider's payload.
CreationFailedNoPayload(body) ==
    [status |-> "warning", message |-> "order creation failed", data |-> NoBody]

CreationFailed(body) ==
    [status |-> "warning", message |-> "order creation failed", data |-> body]
FunctionCreateOrder(e) ==
    [status |-> "error", message |-> "function create_order", data_str |-> e]

request_creating_order_vp(reply, user_id) ==
    IF reply.exc THEN ToReturn(ExceptionCreating(user_id, "transport"))
    ELSE IF reply.status_code = 200
    THEN LET data == reply.body IN
         IF "result" \notin DOMAIN data
         THEN ToReturn(ExceptionCreating(user_id, "KeyError"))
         ELSE IF data.result = TRUE
         THEN IF "data" \in DOMAIN data /\ "trxid" \in DOMAIN data.data
              THEN ToInsert(data.data.trxid, "", data)
              ELSE ToReturn(ExceptionCreating(user_id, "KeyError"))
         ELSE ToReturn(CreationFailed(data))
    ELSE ToReturn(RequestFailed(user_id, reply))

\* request_creating_order_mg has no try block: what it raises is caught by
\* ServiceMoogold.create_order.
request_creating_order_mg(reply, user_id) ==
    IF reply.exc THEN ToReturn(FunctionCreateOrder("transport"))
    ELSE IF reply.status_code = 200
    THEN LET data == reply.body IN
         IF "status_bool" \notin DOMAIN data
         THEN ToReturn(FunctionCreateOrder("KeyError"))
         ELSE IF data.status_bool = TRUE
         THEN IF "account_details" \in DOMAIN data
                 /\ "order_id" \in DOMAIN data.account_details
              THEN ToInsert(data.account_details.order_id, "", data)
              ELSE ToReturn(FunctionCreateOrder("KeyError"))
         ELSE ToReturn(CreationFailed(data))
    ELSE ToReturn(RequestFailed(user_id, reply))

request_creating_order_jm(reply, order_id, message_id, user_id) ==
    IF reply.exc THEN ToReturn(ExceptionCreating(user_id, "transport"))
    ELSE IF reply.status_code = 200
    THEN LET data == reply.body IN
         IF "code" \notin DOMAIN data
         THEN ToReturn(ExceptionCreating(user_id, "KeyError"))
         ELSE IF data.code = "APPLY_SUCCESS"
         THEN ToInsert(order_id, message_id, data)
         ELSE ToReturn(CreationFailed(data))
    ELSE ToReturn(RequestFailed(user_id, reply))

\* The adapter's return once the awaited insert has finished or raised.
AfterInsert(service_code, order_id, message_id, user_id, raised) ==
    CASE service_code = "VP" ->
            IF raised THEN ExceptionCreating(user_id, "storage") ELSE Handle(order_id)
      [] service_code = "MG" ->
            IF raised THEN FunctionCreateOrder("storage") ELSE Handle(order_id)
      [] service_code = "JM" ->
            IF raised THEN ExceptionCreating(user_id, "storage")
            ELSE HandleJM(order_id, message_id)

\* ServiceJollymax.generate_unique_id: prefix + time + uuid4.
generate_unique_id(prefix, n) == prefix \o "-" \o ToString(n)

\* The create payloads the adapters send (vipayment.py, moogold.py, jollymax.py).
PayloadVP(service, user_id, zone_id) ==
    [type |-> "order", service |-> service, data_no |-> user_id, data_zone |-> zone_id]
PayloadMG(service, user_id, zone_id) ==
    [path |-> "order/create_order",
     data |-> [category |-> "1", product_id |-> service, quantity_str |-> "1",
               user |-> user_id, server |-> zone_id]]
PayloadJM(service, user_id, zone_id, order_id, message_id) ==
    [version |-> "1.0",
     data |-> [outOrderId |-> order_id, code |-> service, quantity |-> 1,
               userId |-> user_id, serverId |-> zone_id, messageId |-> message_id]]
NoPayload == [none |-> TRUE]

----------------------------------------------------------------------------
\* Inbound requests (the JSON body of POST /v1/skyshop).  A product name is
\* the sequence of its '+'-delimited segments (what split("+") returns);
\* <<>> is an absent or empty name.

Product(name, quantity, price) == [name |-> name, quantity |-> quantity, price |-> price]
Request(has_test, input, zone, email, has_payment, products) ==
    [has_test |-> has_test, Input |-> input, Zone_ID |-> zone, Email |-> email,
     has_payment |-> has_payment, products |-> products]

ServiceCodes == {"VP", "MG", "JM"}
Descriptor(service_code) == <<service_code, "123", "Gift Card">>
GoodProduct(service_code, quantity) == Product(Descriptor(service_code), quantity, "10.00")
GoodRequest(service_code, quantity) ==
    Request(FALSE, "u1", "z1", "e@x.com", TRUE, <<GoodProduct(service_code, quantity)>>)

Names == {<<>>, <<"VP", "123">>, Descriptor("VP"), Descriptor("JM"), Descriptor("XX")}
Products == {Product(n, q, p) : n \in Names, q \in {0, 1}, p \in {"", "10.00"}}

\* Every combination of present and absent fields.
AllRequests ==
    {Request(FALSE, u, z, e, hp, ps) :
        u \in {"", "u1"}, z \in {"", "z1"}, e \in {"", "e@x.com"},
        hp \in BOOLEAN,
        ps \in {<<>>} \cup {<<p>> : p \in Products}
                      \cup {<<GoodProduct("MG", 1), Product(<<>>, 0, "")>>}}
    \cup {GoodRequest("MG", 2)}
    \cup {Request(TRUE, u, z, e, hp, ps) :
            u \in {"", "u1"}, z \in {"", "z1"}, e \in {"", "e@x.com"},
            hp \in BOOLEAN, ps \in {<<>>, <<GoodProduct("VP", 1)>>}}

\* The requests of the full system's runs: the routable ones, one per error
\* path, and a test request.
CoreRequests ==
    {GoodRequest(c, 1) : c \in ServiceCodes \cup {"XX"}}
    \cup {Request(FALSE, "u1", "z1", "", TRUE, <<GoodProduct("VP", 1)>>),
          Request(TRUE, "", "", "", FALSE, <<>>)}

NoRequest == Request(FALSE, "", "", "", FALSE, <<>>)

JSONResponse(status_code, status, message, data) ==
    [status_code |-> status_code, status |-> status, message |-> message, data |-> data]
NoResult == JSONResponse(0, "", "", NoBody)

\* The validation without the check of Zone_ID.
ValidateNoZone(data) ==
    IF data.has_test
    THEN JSONResponse(200, "success", "testing request successfully", [test |-> TRUE])
    ELSE IF data.Input = "" \/ data.Email = ""
    THEN JSONResponse(400, "error", "missing parameters", data)
    ELSE IF ~data.has_payment
    THEN JSONResponse(500, "error", "request data", StrError("KeyError"))
    ELSE IF data.products = <<>>
    THEN JSONResponse(400, "error", "missing products", data)
    ELSE LET first_product == data.products[1] IN
         IF first_product.name = <<>> \/ first_product.quantity = 0
            \/ first_product.price = ""
         THEN JSONResponse(400, "error", "missing product parameters", data)
         ELSE IF Len(first_product.name) < 3
         THEN JSONResponse(400, "error", "missing product info", data)
         ELSE NoResult

\* The validation without the check of Email.
ValidateNoEmail(data) ==
    IF data.has_test
    THEN JSONResponse(200, "success", "testing request successfully", [test |-> TRUE])
    ELSE IF data.Input = "" \/ data.Zone_ID = ""
    THEN JSONResponse(400, "error", "missing parameters", data)
    ELSE IF ~data.has_payment
    THEN JSONResponse(500, "error", "request data", StrError("KeyError"))
    ELSE IF data.products = <<>>
    THEN JSONResponse(400, "error", "missing products", data)
    ELSE LET first_product == data.products[1] IN
         IF first_product.name = <<>> \/ first_product.quantity = 0
            \/ first_product.price = ""
         THEN JSONResponse(400, "error", "missing product parameters", data)
         ELSE IF Len(first_product.name) < 3
         THEN JSONResponse(400, "error", "missing product info", data)
         ELSE NoResult

\* The validation without the branch for a 'test' key.
ValidateIgnoresTest(data) ==
    IF data.Input = "" \/ data.Zone_ID = "" \/ data.Email = ""
    THEN JSONResponse(400, "error", "missing parameters", data)
    ELSE IF ~data.has_payment
    THEN JSONResponse(500, "error", "request data", StrError("KeyError"))
    ELSE IF data.products = <<>>
    THEN JSONResponse(400, "error", "missing products", data)
    ELSE LET first_product == data.products[1] IN
         IF first_product.name = <<>> \/ first_product.quantity = 0
            \/ first_product.price = ""
         THEN JSONResponse(400, "error", "missing product parameters", data)
         ELSE IF Len(first_product.name) < 3
         THEN JSONResponse(400, "error", "missing product info", data)
         ELSE NoResult

\* skyshop_api up to the call of service_create_order (main.py 134-162):
\* the response it returns at once, or NoResult when the request goes on.
Validate(data) ==
    IF data.has_test
    THEN JSONResponse(200, "success", "testing request successfully", [test |-> TRUE])
    ELSE IF data.Input = "" \/ data.Zone_ID = "" \/ data.Email = ""
    THEN JSONResponse(400, "error", "missing parameters", data)
    ELSE IF ~data.has_payment
    THEN JSONResponse(500, "error", "request data", StrError("KeyError"))
    ELSE IF data.products = <<>>
    THEN JSONResponse(400, "error", "missing products", data)
    ELSE LET first_product == data.products[1] IN
         IF first_product.name = <<>> \/ first_product.quantity = 0
            \/ first_product.price = ""
         THEN JSONResponse(400, "error", "missing product parameters", data)
         ELSE IF Len(first_product.name) < 3
         THEN JSONResponse(400, "error", "missing product info", data)
         ELSE NoResult

\* A value json.dumps can serialize: anything but a Response object.
Serializable(ret) == "data_resp" \notin DOMAIN ret /\ "json_response" \notin DOMAIN ret

\* skyshop_api after service_create_order returned `response` (main.py 164-179):
\* building the JSONResponse raises TypeError on a value that is not
\* serializable, which the inner except turns into a 500.
Respond(response) ==
    IF Serializable(response)
    THEN JSONResponse(200, "success", "order created", response)
    ELSE JSONResponse(500, "error", "create order", StrError("TypeError"))

\* The answer to an unrecognized code built as the except clause builds its own.
InvalidServiceCodeAsCreateError == [json_response |-> 500, message |-> "create order"]

\* What service_create_order returns without calling an adapter (main.py 244-249).
InvalidServiceCode == [json_response |-> 400, message |-> "Invalid service code"]
CreateOrderError == [json_response |-> 500, message |-> "create order"]

Handlers == 1..MaxHandlers

\* service_create_order has not returned.
NoResponse == [none |-> TRUE]

IdleHandler ==
    [pc |-> "idle", req |-> NoRequest, i |-> 0, calls |-> 0,
     attempts |-> [a \in 1..Len(TG_ADMINS) |-> 0], failed |-> 0,
     creates |-> 0, posts |-> 0, payload |-> NoPayload, reply |-> Raised,
     accepted |-> FALSE, order_id |-> "", message_id |-> "",
     order_details |-> Dumps(NoBody), insert_calls |-> 0, inserts |-> 0,
     response |-> NoResponse, result |-> NoResult]

\* The parameters skyshop_api passes to service_create_order.
service_code(h) == handlers[h].req.products[1].name[1]
product_code(h) == handlers[h].req.products[1].name[2]
product_name(h) == handlers[h].req.products[1].name[3]
quantity(h) == handlers[h].req.products[1].quantity
price(h) == handlers[h].req.products[1].price

TotalRows == Len(db["vp_orders"]) + Len(db["mg_orders"]) + Len(db["jm_orders"])
InFlight == Cardinality({h \in Handlers : handlers[h].pc \in {"notify", "http", "insert"}})

TableOf(code) ==
    CASE code = "VP" -> "vp_orders"
      [] code = "MG" -> "mg_orders"
      [] code = "JM" -> "jm_orders"

\* What a step of an inbound handler or a direct store call leaves alone: the
\* scheduler's variables and the position of the application.
SchedVars == <<pc, orders, cur, chk, swept, app>>

----------------------------------------------------------------------------
\* The inbound handler (skyshop_api, service_create_order, the adapter's
\* create_order, request_creating_order_*), one action per await.

\* skyshop_api from the request to its first await: validation, routing and
\* the call of send_message_order.
Receive(h, data) ==
    /\ handlers[h].pc = "idle"
    /\ LET v == Validate(data)
           code == data.products[1].name[1]
       IN  IF v # NoResult
           THEN handlers' = [handlers EXCEPT ![h].pc = "done", ![h].req = data,
                                             ![h].result = v]
           ELSE IF code \in ServiceCodes
           THEN /\ TotalRows + InFlight < MaxOrders
                /\ (code = "JM" => uuid < 2 * MaxJM)
                /\ handlers' = [handlers EXCEPT ![h].pc = "notify", ![h].req = data,
                                                ![h].calls = @ + 1, ![h].i = 1]
           ELSE handlers' = [handlers EXCEPT ![h].pc = "done", ![h].req = data,
                                 ![h].response = InvalidServiceCode,
                                 ![h].result = Respond(InvalidServiceCode)]
    /\ UNCHANGED <<db, uuid, last_op>>
    /\ UNCHANGED SchedVars

\* A delivery attempt that is repeated once when it fails.
AttemptRetry(hd, delivered) ==
    [hd EXCEPT !.attempts[hd.i] = IF delivered THEN @ + 1 ELSE @ + 2,
               !.failed = IF delivered THEN @ ELSE @ + 1]

\* A notifier whose loop ends at the first failed delivery: the operators
\* after it are not attempted.
AttemptStopOnFailure(hd, delivered) ==
    [hd EXCEPT !.attempts[hd.i] = @ + 1,
               !.failed = IF delivered THEN @ ELSE @ + 1,
               !.i = IF delivered THEN @ ELSE Len(TG_ADMINS)]

\* send_message_order (bot.py 119-126): one delivery attempt, which the
\* except clause survives.
Attempt(hd, delivered) ==
    [hd EXCEPT !.attempts[hd.i] = @ + 1,
               !.failed = IF delivered THEN @ ELSE @ + 1]

\* A delivery attempt to an operator that is not the last one.
Notify(h, delivered) ==
    /\ handlers[h].pc = "notify"
    /\ handlers[h].i < Len(TG_ADMINS)
    /\ handlers' = [handlers EXCEPT ![h] = [Attempt(@, delivered) EXCEPT !.i = @ + 1]]
    /\ UNCHANGED <<db, uuid, last_op>>
    /\ UNCHANGED SchedVars

\* An orchestrator that calls create_order once for each product of the request.
DispatchPerProduct(hd, code, key_ok) ==
    LET order_id == generate_unique_id("TM003400", uuid + 1)
        message_id == generate_unique_id("", uuid + 2)
        d == hd.req.products[1]
        n == Len(hd.req.products)
    IN  CASE code = "VP" ->
                [hd EXCEPT !.pc = "http", !.creates = @ + n, !.posts = @ + n,
                           !.payload = PayloadVP(d.name[2], hd.req.Input, hd.req.Zone_ID)]
          [] code = "MG" ->
                [hd EXCEPT !.pc = "http", !.creates = @ + n, !.posts = @ + n,
                           !.payload = PayloadMG(d.name[2], hd.req.Input, hd.req.Zone_ID)]
          [] code = "JM" ->
                [hd EXCEPT !.pc = "http", !.creates = @ + n, !.posts = @ + n,
                           !.order_id = order_id, !.message_id = message_id,
                           !.payload = PayloadJM(d.name[2], hd.req.Input,
                                           hd.req.Zone_ID, order_id, message_id)]

\* The adapter's create_order up to its POST (vipayment.py 39-60,
\* moogold.py 68-100, jollymax.py 96-134).  For Jollymax two identifiers are
\* drawn and the payload is signed before the try block: a failure to load
\* the private key reaches service_create_order's except clause.
Dispatch(hd, code, key_ok) ==
    LET order_id == generate_unique_id("TM003400", uuid + 1)
        message_id == generate_unique_id("", uuid + 2)
        d == hd.req.products[1]
    IN  CASE code = "VP" ->
                [hd EXCEPT !.pc = "http", !.creates = @ + 1, !.posts = @ + 1,
                           !.payload = PayloadVP(d.name[2], hd.req.Input, hd.req.Zone_ID)]
          [] code = "MG" ->
                [hd EXCEPT !.pc = "http", !.creates = @ + 1, !.posts = @ + 1,
                           !.payload = PayloadMG(d.name[2], hd.req.Input, hd.req.Zone_ID)]
          [] code = "JM" ->
                IF key_ok
                THEN [hd EXCEPT !.pc = "http", !.creates = @ + 1, !.posts = @ + 1,
                                !.order_id = order_id, !.message_id = message_id,
                                !.payload = PayloadJM(d.name[2], hd.req.Input,
                                                hd.req.Zone_ID, order_id, message_id)]
                ELSE [hd EXCEPT !.pc = "done", !.creates = @ + 1,
                                !.response = CreateOrderError,
                                !.result = Respond(CreateOrderError)]

\* The adapter's create_order called before the last delivery attempt is made.
DispatchBeforeNotify(h, delivered, key_ok) ==
    /\ handlers[h].pc = "notify"
    /\ handlers[h].i = Len(TG_ADMINS)
    /\ (service_code(h) # "JM" => key_ok)
    /\ handlers' = [handlers EXCEPT ![h] = Dispatch(@, service_code(h), key_ok)]
    /\ uuid' = IF service_code(h) = "JM" THEN uuid + 2 ELSE uuid
    /\ UNCHANGED <<db, last_op>>
    /\ UNCHANGED SchedVars

\* The delivery attempt to the last operator, then the adapter's create_order.
NotifyLast(h, delivered, key_ok) ==
    /\ handlers[h].pc = "notify"
    /\ handlers[h].i = Len(TG_ADMINS)
    /\ (service_code(h) # "JM" => key_ok)
    /\ handlers' = [handlers EXCEPT
                      ![h] = Dispatch(Attempt(@, delivered), service_code(h), key_ok)]
    /\ uuid' = IF service_code(h) = "JM" THEN uuid + 2 ELSE uuid
    /\ UNCHANGED <<db, last_op>>
    /\ UNCHANGED SchedVars

CreateReplies(code) ==
    CASE code = "VP" -> VPCreateReplies
      [] code = "MG" -> MGCreateReplies
      [] code = "JM" -> JMCreateReplies

Creating(h, reply) ==
    CASE service_code(h) = "VP" -> request_creating_order_vp(reply, handlers[h].req.Input)
      [] service_code(h) = "MG" -> request_creating_order_mg(reply, handlers[h].req.Input)
      [] service_code(h) = "JM" ->
            request_creating_order_jm(reply, handlers[h].order_id,
                                      handlers[h].message_id, handlers[h].req.Input)

\* The provider's reply to the create POST arrives.
CreateReply(h, reply) ==
    /\ handlers[h].pc = "http"
    /\ reply \in CreateReplies(service_code(h))
    /\ LET plan == Creating(h, reply) IN
       IF plan.act = "insert"
       THEN handlers' = [handlers EXCEPT
                ![h].pc = "insert", ![h].reply = reply, ![h].accepted = TRUE,
                ![h].order_id = plan.order_id, ![h].message_id = plan.message_id,
                ![h].order_details = plan.order_details,
                ![h].insert_calls = @ + 1]
       ELSE handlers' = [handlers EXCEPT
                ![h].pc = "done", ![h].reply = reply,
                ![h].response = plan.ret,
                ![h].result = Respond(plan.ret)]
    /\ UNCHANGED <<db, uuid, last_op>>
    /\ UNCHANGED SchedVars

\* Every adapter inserting with the status "waiting".
InitialStatusWaiting(code) == "waiting"

InitialStatus(code) ==
    CASE code = "VP" -> "waiting"
      [] code = "MG" -> "processing"
      [] code = "JM" -> "waiting"

ApiName(code) ==
    CASE code = "VP" -> "VIPAYMENT"
      [] code = "MG" -> "MOOGOLD"
      [] code = "JM" -> "JOLLYMAX"

\* The insert the adapter awaits (req_methods.py 35-46, 77-88, 116-128).
InsertRow(h) ==
    LET hd == handlers[h]
        code == service_code(h)
        table == db[TableOf(code)]
    IN  CASE code = "VP" ->
                createOrderVP(table, hd.req.Input, hd.req.Zone_ID, quantity(h), price(h),
                              product_name(h), ApiName(code), hd.order_id, hd.req.Email,
                              InitialStatus(code), hd.order_details)
          [] code = "MG" ->
                createOrderMG(table, hd.req.Input, hd.req.Zone_ID, quantity(h), price(h),
                              product_name(h), ApiName(code), hd.order_id, hd.req.Email,
                              InitialStatus(code), hd.order_details)
          [] code = "JM" ->
                createOrderJM(table, hd.req.Input, hd.req.Zone_ID, quantity(h), price(h),
                              product_name(h), ApiName(code), hd.order_id, hd.message_id,
                              hd.req.Email, InitialStatus(code), hd.order_details)

\* The store executes the insert, or raises (storage fault).
Insert(h, raised) ==
    /\ handlers[h].pc = "insert"
    /\ db' = IF raised THEN db
             ELSE [db EXCEPT ![TableOf(service_code(h))] = InsertRow(h)]
    /\ handlers' = [handlers EXCEPT
            ![h].pc = "done",
            ![h].inserts = IF raised THEN @ ELSE @ + 1,
            ![h].response = AfterInsert(service_code(h), handlers[h].order_id,
                                handlers[h].message_id, handlers[h].req.Input, raised),
            ![h].result = Respond(AfterInsert(service_code(h), handlers[h].order_id,
                                handlers[h].message_id, handlers[h].req.Input, raised))]
    /\ UNCHANGED <<uuid, last_op>>
    /\ UNCHANGED SchedVars

\* The response has been sent; the handler is free for the next request.
Reply(h) ==
    /\ handlers[h].pc = "done"
    /\ handlers' = [handlers EXCEPT ![h] = IdleHandler]
    /\ UNCHANGED <<db, uuid, last_op>>
    /\ UNCHANGED SchedVars

----------------------------------------------------------------------------
\* req_methods.py, status checks: the adapter's return value (orderData) for
\* a reply of the provider.

VPCheckReplies ==
    {Raised, Http(500, NoBody),
     Http(200, [result |-> FALSE, message |-> "not found"]),
     Http(200, [result |-> TRUE, data |-> [status |-> "success"]]),
     Http(200, [result |-> TRUE, data_list |-> <<>>])}
    \cup {Http(200, [result |-> TRUE, data_list |-> <<[status |-> st]>>]) :
            st \in VP_STATUSES \cup {UnknownStatus}}

MGCheckReplies ==
    {Raised, Http(500, NoBody), Http(200, [err_message |-> "not found"])}
    \cup {Http(200, [order_status |-> st]) : st \in MG_STATUSES \cup {UnknownStatus}}

JMCheckReplies ==
    {Raised, Http(500, NoBody),
     Http(200, [code |-> "APPLY_FAIL", msg |-> "not found"]),
     Http(200, [code |-> "APPLY_FAIL", msg |-> "not found", status |-> "success"]),
     Http(200, [code |-> "APPLY_SUCCESS", msg |-> "ok"])}
    \cup {Http(200, [code |-> "APPLY_SUCCESS", data |-> [status |-> st]]) :
            st \in JM_STATUSES \cup {UnknownStatus}}

ExceptionChecking(e) ==
    [status |-> "exception", message |-> "function error: (checking order)",
     data_str |-> e]
CheckRequestFailed(reply) ==
    [status |-> "error", message |-> "the request failed",
     data_resp |-> ResponseObject(reply)]
CheckFailed(message, body) == [status |-> "warning", message |-> message, data |-> body]

request_checking_order_vp(reply) ==
    IF reply.exc THEN ExceptionChecking("transport")
    ELSE IF reply.status_code = 200
    THEN LET data == reply.body IN
         IF "result" \notin DOMAIN data THEN ExceptionChecking("KeyError")
         ELSE IF data.result = TRUE THEN data
         ELSE CheckFailed("order check failed", data)
    ELSE CheckRequestFailed(reply)

request_checking_order_mg(reply) ==
    IF reply.exc THEN ExceptionChecking("transport")
    ELSE IF reply.status_code = 200
    THEN LET data == reply.body IN
         IF "order_status" \in DOMAIN data /\ data.order_status = "completed" THEN data
         ELSE IF "order_status" \notin DOMAIN data THEN ExceptionChecking("KeyError")
         ELSE CheckFailed("order not paid", data)
    ELSE CheckRequestFailed(reply)

request_checking_order_jm(reply) ==
    IF reply.exc THEN ExceptionChecking("transport")
    ELSE IF reply.status_code = 200
    THEN LET data == reply.body IN
         IF "code" \notin DOMAIN data THEN ExceptionChecking("KeyError")
         ELSE IF data.code = "APPLY_SUCCESS" THEN data
         ELSE CheckFailed("order not paid", data)
    ELSE CheckRequestFailed(reply)

----------------------------------------------------------------------------
\* check_order_status (main.py 251-326): what the loop body does with
\* orderData.  act is "update" (the store update is awaited next), "skip"
\* (a warning is logged) or "raise" (the except clause logs and continues).

Decision(act, new_status) == [act |-> act, new_status |-> new_status]

\* A Provider A loop body that writes whatever status the response carries.
DecideVPAnyStatus(orderData) ==
    IF "result" \in DOMAIN orderData /\ orderData.result = TRUE
       /\ "data_list" \in DOMAIN orderData
    THEN IF orderData.data_list = <<>> \/ "status" \notin DOMAIN orderData.data_list[1]
         THEN Decision("raise", "")
         ELSE Decision("update", orderData.data_list[1].status)
    ELSE Decision("skip", "")

\* A Provider A loop body that closes an order whose check failed.
DecideVPFailedAsError(orderData) ==
    IF "result" \in DOMAIN orderData /\ orderData.result = TRUE
       /\ "data_list" \in DOMAIN orderData
    THEN IF orderData.data_list = <<>> \/ "status" \notin DOMAIN orderData.data_list[1]
         THEN Decision("raise", "")
         ELSE LET new_status == orderData.data_list[1].status IN
              IF new_status \in VP_STATUSES
              THEN Decision("update", new_status)
              ELSE Decision("skip", new_status)
    ELSE Decision("update", "error")

\* A Provider A loop body that closes an order whose data list is empty.
DecideVPEmptyAsError(orderData) ==
    IF "result" \in DOMAIN orderData /\ orderData.result = TRUE
       /\ "data_list" \in DOMAIN orderData
    THEN IF orderData.data_list = <<>>
         THEN Decision("update", "error")
         ELSE IF "status" \notin DOMAIN orderData.data_list[1]
         THEN Decision("raise", "")
         ELSE LET new_status == orderData.data_list[1].status IN
              IF new_status \in VP_STATUSES
              THEN Decision("update", new_status)
              ELSE Decision("skip", new_status)
    ELSE Decision("skip", "")

DecideVP(orderData) ==
    IF "result" \in DOMAIN orderData /\ orderData.result = TRUE
       /\ "data_list" \in DOMAIN orderData
    THEN IF orderData.data_list = <<>> \/ "status" \notin DOMAIN orderData.data_list[1]
         THEN Decision("raise", "")
         ELSE LET new_status == orderData.data_list[1].status IN
              IF new_status \in VP_STATUSES
              THEN Decision("update", new_status)
              ELSE Decision("skip", new_status)
    ELSE Decision("skip", "")

DecideMG(orderData) ==
    LET new_status == IF "order_status" \in DOMAIN orderData
                      THEN orderData.order_status ELSE ""
    IN  IF new_status \in MG_STATUSES
        THEN Decision("update", new_status)
        ELSE Decision("skip", new_status)

DecideJM(orderData) ==
    IF "data" \notin DOMAIN orderData
    THEN Decision("raise", "")
    ELSE LET new_status == IF "status" \in DOMAIN orderData.data
                           THEN orderData.data.status ELSE ""
         IN  IF new_status \in JM_STATUSES
             THEN Decision("update", new_status)
             ELSE Decision("skip", new_status)

CheckReplies(t) ==
    CASE t = "vp_orders" -> VPCheckReplies
      [] t = "mg_orders" -> MGCheckReplies
      [] t = "jm_orders" -> JMCheckReplies

\* Service*.check_order for a reply of the provider.
check_order(t, reply) ==
    CASE t = "vp_orders" -> request_checking_order_vp(reply)
      [] t = "mg_orders" -> request_checking_order_mg(reply)
      [] t = "jm_orders" -> request_checking_order_jm(reply)

Decide(t, orderData) ==
    CASE t = "vp_orders" -> DecideVP(orderData)
      [] t = "mg_orders" -> DecideMG(orderData)
      [] t = "jm_orders" -> DecideJM(orderData)

\* The lists hold what the loops read of a row.
OrderRef(row) ==
    [id |-> row.id, order_id |-> row.order_id,
     message_id |-> IF "message_id" \in DOMAIN row THEN row.message_id ELSE ""]
\* A sweep that visits every order of a list twice.
RefsTwice(rows) == [i \in 1..(2 * Len(rows)) |-> OrderRef(rows[((i - 1) % Len(rows)) + 1])]

\* A sweep that visits the first order of a list only.
RefsFirst(rows) == IF rows = <<>> THEN <<>> ELSE <<OrderRef(rows[1])>>
Refs(rows) == [i \in 1..Len(rows) |-> OrderRef(rows[i])]

NoOrders == [vp_orders |-> <<>>, mg_orders |-> <<>>, jm_orders |-> <<>>]
NoCur == [table |-> "", id |-> 0, order_id |-> "", message_id |-> "",
          status |-> "", new_order_details |-> Dumps(NoBody)]
NoChk == [table |-> "", id |-> 0, order_id |-> "", message_id |-> "",
          reply |-> Raised, orderData |-> NoBody, new_status |-> "",
          act |-> "none", done |-> FALSE, raised |-> FALSE]
NoSweep == [aborted |-> FALSE, queried |-> {}, checks |-> {}]
Aborted == [aborted |-> TRUE, queried |-> {}, checks |-> {}]

\* The rows a status query returned, as they were when it returned them.
Queried(t, rows) == {[table |-> t, id |-> rows[i].id, row |-> rows[i]] : i \in 1..Len(rows)}

\* The table whose for loop is running: the loops run in the order VP, MG, JM.
Current(o) ==
    IF o.vp_orders # <<>> THEN "vp_orders"
    ELSE IF o.mg_orders # <<>> THEN "mg_orders"
    ELSE IF o.jm_orders # <<>> THEN "jm_orders"
    ELSE ""

AfterOrder(o) == IF Current(o) = "" THEN "sleep" ELSE "check"

\* A failure of one order ends the sweep instead of going on with the rest.
AfterFailureAbort(rest) == "sleep"

\* The loop body's warning branch and except clause: the loop goes on with
\* the orders that remain.
AfterFailure(rest) == AfterOrder(rest)

\* The status the provider's reply carries for the order, "" if none.
ReplyStatus(t, reply) ==
    IF reply.exc \/ reply.status_code # 200 THEN ""
    ELSE LET body == reply.body IN
         CASE t = "vp_orders" ->
                IF "result" \in DOMAIN body /\ body.result /\ "data_list" \in DOMAIN body
                   /\ body.data_list # <<>>
                THEN body.data_list[1].status ELSE ""
           [] t = "mg_orders" ->
                IF "order_status" \in DOMAIN body THEN body.order_status ELSE ""
           [] t = "jm_orders" ->
                IF "code" \in DOMAIN body /\ body.code = "APPLY_SUCCESS"
                   /\ "data" \in DOMAIN body
                THEN body.data.status ELSE ""

SweepEntry(c, act) ==
    [table |-> c.table, id |-> c.id, order_id |-> c.order_id,
     message_id |-> c.message_id, st |-> ReplyStatus(c.table, c.reply),
     new_status |-> c.new_status, act |-> act]

\* What a step of the scheduler leaves alone.
HandlerVars == <<handlers, uuid, last_op, app>>

\* A failing status query that ends the task instead of the sweep.
QueryVPStop(raised) ==
    /\ pc = "query_vp"
    /\ IF raised
       THEN /\ pc' = "stopped"
            /\ orders' = NoOrders
            /\ swept' = Aborted
       ELSE LET rows == getOrderStatusVP(db["vp_orders"], "waiting") IN
            /\ pc' = "query_mg"
            /\ orders' = [NoOrders EXCEPT !.vp_orders = Refs(rows)]
            /\ swept' = [NoSweep EXCEPT !.queried = Queried("vp_orders", rows)]
    /\ chk' = NoChk
    /\ cur' = NoCur
    /\ UNCHANGED db
    /\ UNCHANGED HandlerVars

\* await db_manager.getOrderStatusVP("waiting"): the start of a sweep.
QueryVP(raised) ==
    /\ pc = "query_vp"
    /\ IF raised
       THEN /\ pc' = "sleep"
            /\ orders' = NoOrders
            /\ swept' = Aborted
       ELSE LET rows == getOrderStatusVP(db["vp_orders"], "waiting") IN
            /\ pc' = "query_mg"
            /\ orders' = [NoOrders EXCEPT !.vp_orders = Refs(rows)]
            /\ swept' = [NoSweep EXCEPT !.queried = Queried("vp_orders", rows)]
    /\ chk' = NoChk
    /\ cur' = NoCur
    /\ UNCHANGED db
    /\ UNCHANGED HandlerVars

\* await db_manager.getOrderStatusMG("processing")
QueryMG(raised) ==
    /\ pc = "query_mg"
    /\ IF raised
       THEN /\ pc' = "sleep"
            /\ orders' = NoOrders
            /\ swept' = Aborted
       ELSE LET rows == getOrderStatusMG(db["mg_orders"], "processing") IN
            /\ pc' = "query_jm"
            /\ orders' = [orders EXCEPT !.mg_orders = Refs(rows)]
            /\ swept' = [swept EXCEPT !.queried = @ \cup Queried("mg_orders", rows)]
    /\ UNCHANGED <<db, cur, chk>>
    /\ UNCHANGED HandlerVars

\* await db_manager.getOrderStatusJM("waiting"), then the first loop.
QueryJM(raised) ==
    /\ pc = "query_jm"
    /\ IF raised
       THEN /\ pc' = "sleep"
            /\ orders' = NoOrders
            /\ swept' = Aborted
       ELSE LET rows == getOrderStatusJM(db["jm_orders"], "waiting")
                o == [orders EXCEPT !.jm_orders = Refs(rows)]
            IN  /\ pc' = AfterOrder(o)
                /\ orders' = o
                /\ swept' = [swept EXCEPT !.queried = @ \cup Queried("jm_orders", rows)]
    /\ UNCHANGED <<db, cur, chk>>
    /\ UNCHANGED HandlerVars

\* One pass of a loop body up to its next await: the adapter's check_order
\* (for Jollymax, signing first, outside the adapter's try block) and the
\* decision on orderData.
Check(reply, key_ok) ==
    /\ pc = "check"
    /\ LET t == Current(orders)
           order == Head(orders[t])
           rest == [orders EXCEPT ![t] = Tail(@)]
           orderData == check_order(t, reply)
           d == IF t = "jm_orders" /\ ~key_ok
                THEN Decision("raise", "") ELSE Decide(t, orderData)
           c == [table |-> t, id |-> order.id, order_id |-> order.order_id,
                 message_id |-> order.message_id,
                 reply |-> IF t = "jm_orders" /\ ~key_ok THEN Raised ELSE reply,
                 orderData |-> IF t = "jm_orders" /\ ~key_ok THEN NoBody ELSE orderData,
                 new_status |-> d.new_status, act |-> d.act,
                 done |-> d.act # "update", raised |-> FALSE]
       IN  /\ reply \in CheckReplies(t)
           /\ (t # "jm_orders" => key_ok)
           /\ (~key_ok => reply = Raised)
           /\ orders' = rest
           /\ chk' = c
           /\ IF d.act = "update"
              THEN /\ pc' = "update"
                   /\ cur' = [table |-> t, id |-> order.id, order_id |-> order.order_id,
                              message_id |-> order.message_id, status |-> d.new_status,
                              new_order_details |-> Dumps(orderData)]
                   /\ swept' = swept
              ELSE /\ pc' = AfterFailure(rest)
                   /\ cur' = NoCur
                   /\ swept' = [swept EXCEPT !.checks =
                        @ \cup {SweepEntry(c, d.act)}]
    /\ UNCHANGED db
    /\ UNCHANGED HandlerVars

UpdateRow(c) ==
    CASE c.table = "vp_orders" ->
            updateOrderVP(db[c.table], c.order_id, Arg(c.status), Arg(c.new_order_details))
      [] c.table = "mg_orders" ->
            updateOrderMG(db[c.table], c.order_id, Arg(c.status), Arg(c.new_order_details))
      [] c.table = "jm_orders" ->
            updateOrderJM(db[c.table], c.order_id, c.message_id, Arg(c.status),
                          Arg(c.new_order_details))

\* A store fault of an update that ends the sweep.
UpdateAbort(raised) ==
    /\ pc = "update"
    /\ db' = IF raised THEN db ELSE [db EXCEPT ![cur.table] = UpdateRow(cur)]
    /\ chk' = [chk EXCEPT !.done = TRUE, !.raised = raised]
    /\ swept' = [swept EXCEPT !.checks =
            @ \cup {SweepEntry(chk, IF raised THEN "fault" ELSE "update")}]
    /\ cur' = NoCur
    /\ pc' = IF raised THEN "sleep" ELSE AfterOrder(orders)
    /\ UNCHANGED orders
    /\ UNCHANGED HandlerVars

\* await db_manager.updateOrder*: the store executes the update, or raises
\* and the except clause of the loop body continues with the next order.
Update(raised) ==
    /\ pc = "update"
    /\ db' = IF raised THEN db ELSE [db EXCEPT ![cur.table] = UpdateRow(cur)]
    /\ chk' = [chk EXCEPT !.done = TRUE, !.raised = raised]
    /\ swept' = [swept EXCEPT !.checks =
            @ \cup {SweepEntry(chk, IF raised THEN "fault" ELSE "update")}]
    /\ cur' = NoCur
    /\ pc' = IF raised THEN AfterFailure(orders) ELSE AfterOrder(orders)
    /\ UNCHANGED orders
    /\ UNCHANGED HandlerVars

\* await sleep(120) returns: the next sweep starts.
Sleep ==
    /\ pc = "sleep"
    /\ pc' = "query_vp"
    /\ UNCHANGED <<db, orders, cur, chk, swept>>
    /\ UNCHANGED HandlerVars

----------------------------------------------------------------------------
\* The gateway: inbound handlers and the scheduler task, interleaved at
\* their awaits.

Init ==
    /\ db = [t \in Tables |-> <<>>]
    /\ handlers = [h \in Handlers |-> IdleHandler]
    /\ pc = "query_vp"
    /\ orders = NoOrders
    /\ cur = NoCur
    /\ uuid = 0
    /\ chk = NoChk
    /\ swept = NoSweep
    /\ last_op = NoCall
    /\ app = "running"

HandlerStep ==
    \/ \E h \in Handlers, delivered \in BOOLEAN : Notify(h, delivered)
    \/ \E h \in Handlers, delivered \in BOOLEAN, key_ok \in BOOLEAN :
            NotifyLast(h, delivered, key_ok)
    \/ \E h \in Handlers, reply \in VPCreateReplies \cup MGCreateReplies \cup JMCreateReplies :
            CreateReply(h, reply)
    \/ \E h \in Handlers, raised \in BOOLEAN : Insert(h, raised)
    \/ \E h \in Handlers : Reply(h)

SchedulerStep ==
    \/ \E raised \in BOOLEAN : QueryVP(raised)
    \/ \E raised \in BOOLEAN : QueryMG(raised)
    \/ \E raised \in BOOLEAN : QueryJM(raised)
    \/ \E reply \in VPCheckReplies \cup MGCheckReplies \cup JMCheckReplies,
          key_ok \in BOOLEAN : Check(reply, key_ok)
    \/ \E raised \in BOOLEAN : Update(raised)
    \/ Sleep

Next ==
    \/ \E h \in Handlers, data \in CoreRequests : Receive(h, data)
    \/ HandlerStep
    \/ SchedulerStep

Spec == Init /\ [][Next]_vars

\* Inbound handling alone, over every combination of request fields, one
\* request at a time.
NextInbound ==
    \/ \E h \in Handlers, data \in AllRequests :
            /\ \A g \in Handlers : handlers[g].pc = "idle"
            /\ Receive(h, data)
    \/ HandlerStep

SpecInbound == Init /\ [][NextInbound]_vars

----------------------------------------------------------------------------
\* The Order Store contract: update and delete applied to arbitrary tables.

StoreOrderIds == {"O1", "O2"}
StoreMessageIds == {"m1", "m2"}

StoreRowVP(id, order_id, status) ==
    [id |-> id, user_id |-> "u1", zone_id |-> "z1", quantity |-> 1, price |-> "10.00",
     product |-> "Gift Card", api_name |-> "VIPAYMENT", order_id |-> order_id,
     email_user |-> "e@x.com", status |-> status, order_details |-> Dumps(NoBody)]
StoreRowMG(id, order_id, status) ==
    [StoreRowVP(id, order_id, status) EXCEPT !.api_name = "MOOGOLD"]
StoreRowJM(id, order_id, message_id, status) ==
    [id |-> id, user_id |-> "u1", zone_id |-> "z1", quantity |-> 1, price |-> "10.00",
     product |-> "Gift Card", api_name |-> "JOLLYMAX", order_id |-> order_id,
     message_id |-> message_id, email_user |-> "e@x.com", status |-> status,
     order_details |-> Dumps(NoBody)]

StoreStatuses(t) == {Checkable(t)}

StoreTables(t) ==
    UNION {
        {[i \in 1..n |->
            IF t = "jm_orders"
            THEN StoreRowJM(i, f[i].order_id, f[i].message_id, f[i].status)
            ELSE IF t = "mg_orders"
            THEN StoreRowMG(i, f[i].order_id, f[i].status)
            ELSE StoreRowVP(i, f[i].order_id, f[i].status)] :
         f \in [1..n -> [order_id : StoreOrderIds,
                         message_id : IF t = "jm_orders" THEN StoreMessageIds ELSE {""},
                         status : StoreStatuses(t)]]} :
        n \in 0..MaxRows}

InitStore ==
    /\ \E t \in Tables : \E table \in StoreTables(t) :
            db = [u \in Tables |-> IF u = t THEN table ELSE <<>>]
    /\ handlers = [h \in Handlers |-> IdleHandler]
    /\ pc = "sleep"
    /\ orders = NoOrders
    /\ cur = NoCur
    /\ uuid = 0
    /\ chk = NoChk
    /\ swept = NoSweep
    /\ last_op = NoCall
    /\ app = "running"

StatusArgs == {NoStatus, Arg("success")}
DetailsArgs == {NoDetails, Arg(Dumps([order_status |-> "completed"]))}

StoreCall(op, order_id, message_id, status, new_order_details) ==
    [op |-> op, order_id |-> order_id, message_id |-> message_id,
     status |-> status, new_order_details |-> new_order_details]

StoreUpdateVP(order_id, status, new_order_details) ==
    /\ db' = [db EXCEPT !["vp_orders"] =
                updateOrderVP(@, order_id, status, new_order_details)]
    /\ last_op' = StoreCall("updateOrderVP", order_id, "", status, new_order_details)
    /\ UNCHANGED <<handlers, uuid>>
    /\ UNCHANGED SchedVars

StoreUpdateMG(order_id, status, new_order_details) ==
    /\ db' = [db EXCEPT !["mg_orders"] =
                updateOrderMG(@, order_id, status, new_order_details)]
    /\ last_op' = StoreCall("updateOrderMG", order_id, "", status, new_order_details)
    /\ UNCHANGED <<handlers, uuid>>
    /\ UNCHANGED SchedVars

StoreUpdateJM(order_id, message_id, status, new_order_details) ==
    /\ db' = [db EXCEPT !["jm_orders"] =
                updateOrderJM(@, order_id, message_id, status, new_order_details)]
    /\ last_op' = StoreCall("updateOrderJM", order_id, message_id, status,
                            new_order_details)
    /\ UNCHANGED <<handlers, uuid>>
    /\ UNCHANGED SchedVars

StoreDeleteVP(order_id) ==
    /\ db' = [db EXCEPT !["vp_orders"] = deleteOrderVP(@, order_id)]
    /\ last_op' = StoreCall("deleteOrderVP", order_id, "", NoStatus, NoDetails)
    /\ UNCHANGED <<handlers, uuid>>
    /\ UNCHANGED SchedVars

StoreDeleteMG(order_id) ==
    /\ db' = [db EXCEPT !["mg_orders"] = deleteOrderMG(@, order_id)]
    /\ last_op' = StoreCall("deleteOrderMG", order_id, "", NoStatus, NoDetails)
    /\ UNCHANGED <<handlers, uuid>>
    /\ UNCHANGED SchedVars

StoreDeleteJM(order_id, message_id) ==
    /\ db' = [db EXCEPT !["jm_orders"] = deleteOrderJM(@, order_id, message_id)]
    /\ last_op' = StoreCall("deleteOrderJM", order_id, message_id, NoStatus, NoDetails)
    /\ UNCHANGED <<handlers, uuid>>
    /\ UNCHANGED SchedVars

NextStore ==
    \/ \E o \in StoreOrderIds, st \in StatusArgs, d \in DetailsArgs : StoreUpdateVP(o, st, d)
    \/ \E o \in StoreOrderIds, st \in StatusArgs, d \in DetailsArgs : StoreUpdateMG(o, st, d)
    \/ \E o \in StoreOrderIds, m \in StoreMessageIds, st \in StatusArgs, d \in DetailsArgs :
            StoreUpdateJM(o, m, st, d)
    \/ \E o \in StoreOrderIds : StoreDeleteVP(o)
    \/ \E o \in StoreOrderIds : StoreDeleteMG(o)
    \/ \E o \in StoreOrderIds, m \in StoreMessageIds : StoreDeleteJM(o, m)

SpecStore == InitStore /\ [][NextStore]_vars

----------------------------------------------------------------------------
\* The reconciliation scheduler alone (the task startup_event creates),
\* started on stores that hold checkable rows and rows of another status.

OtherStatus(t) ==
    CASE t = "vp_orders" -> "success"
      [] t = "mg_orders" -> "completed"
      [] t = "jm_orders" -> "failed"

SweepRow(t, i, status) ==
    LET order_id == "S" \o ToString(i) IN
    CASE t = "vp_orders" -> StoreRowVP(i, order_id, status)
      [] t = "mg_orders" -> StoreRowMG(i, order_id, status)
      [] t = "jm_orders" -> StoreRowJM(i, order_id, "m" \o ToString(i), status)

SweepTables(t) ==
    UNION {{[i \in 1..n |-> SweepRow(t, i, f[i])] :
                f \in [1..n -> {Checkable(t), OtherStatus(t)}]} :
           n \in 0..MaxSweepRows}

InitSweep ==
    /\ \E vp \in SweepTables("vp_orders"), mg \in SweepTables("mg_orders"),
          jm \in SweepTables("jm_orders") :
            /\ Len(vp) + Len(mg) + Len(jm) <= MaxSweepRows
            /\ db = [vp_orders |-> vp, mg_orders |-> mg, jm_orders |-> jm]
    /\ handlers = [h \in Handlers |-> IdleHandler]
    /\ pc = "query_vp"
    /\ orders = NoOrders
    /\ cur = NoCur
    /\ uuid = 0
    /\ chk = NoChk
    /\ swept = NoSweep
    /\ last_op = NoCall
    /\ app = "running"

NextSweep == SchedulerStep

SpecSweep == InitSweep /\ [][NextSweep]_vars

\* Every await of the task returns or raises: the event loop resumes the
\* task, sleep(120) ends, and the store and HTTP calls end or time out.
SpecSweepFair == InitSweep /\ [][NextSweep]_vars /\ WF_vars(NextSweep)

----------------------------------------------------------------------------
\* Properties of the status sweep.

RowById(t, id) == CHOOSE row \in {db[t][i] : i \in 1..Len(db[t])} : row.id = id
SweepDone == pc = "sleep" /\ ~swept.aborted
Terminal(t) == Statuses(t) \ {Checkable(t)}

\* The checks of a sweep that concern the same handle as entry e.
SameHandle(e) ==
    {f \in swept.checks : f.table = e.table /\ f.order_id = e.order_id
                          /\ f.message_id = e.message_id}

\* C1 (P1, convergence): when a sweep has run to its end and the provider
\* reported, for an order the sweep checked, a status ST of the provider's
\* vocabulary that is not the checkable one, with no fault on that order and
\* no other status reported for its handle, the stored status of the order is ST.
C1_Convergence ==
    SweepDone =>
        \A e \in swept.checks :
            (/\ e.st \in Terminal(e.table)
             /\ e.act # "fault"
             /\ \A f \in SameHandle(e) : f.act # "fault" /\ f.st \in {e.st, ""})
            => RowById(e.table, e.id).status = e.st

\* C2 (P5, create then sweep): once the check of an order created through the
\* gateway has been handled without a fault and the provider's reply carried a
\* status ST of the vocabulary, the stored row has status ST and its details
\* are the provider's last response.
C2_RoundTrip ==
    (/\ chk.done
     /\ ~chk.raised
     /\ ReplyStatus(chk.table, chk.reply) \in Statuses(chk.table))
    => LET row == RowById(chk.table, chk.id) IN
       /\ row.api_name \in {"VIPAYMENT", "MOOGOLD", "JOLLYMAX"}
       /\ row.status = ReplyStatus(chk.table, chk.reply)
       /\ row.order_details = Dumps(chk.reply.body)

\* C3 (P2, unknown status is a no-op): at the end of a sweep, for every order
\* whose check gave a status that is not in the provider's vocabulary, no
\* update was issued for the order and its row is, field by field, the row
\* the status query of that sweep returned.
C3_UnknownStatusNoOp ==
    SweepDone =>
        \A e \in swept.checks :
            (e.new_status # "" /\ e.new_status \notin Statuses(e.table))
            => /\ e.act = "skip"
               /\ \E q \in swept.queried :
                    /\ q.table = e.table /\ q.id = e.id
                    /\ RowById(e.table, e.id) = q.row

\* The Provider A checks of the sweep all failed (raised or returned no status).
AllVPFailed ==
    \A e \in swept.checks :
        e.table = "vp_orders" => (e.new_status = "" /\ e.act \in {"skip", "raise"})

\* C4 (P3, provider isolation): at the end of a sweep in which every check of
\* a Provider A order failed, every Provider B and C order the queries
\* returned has been checked, an update was issued for each whose check gave a
\* status of the vocabulary, and the row then holds that status.
C4_ProviderIsolation ==
    (SweepDone /\ AllVPFailed) =>
        \A q \in swept.queried :
            q.table \in {"mg_orders", "jm_orders"}
            => \E e \in swept.checks :
                /\ e.table = q.table /\ e.id = q.id
                /\ (e.new_status \in Statuses(e.table) <=> e.act \in {"update", "fault"})
                /\ (e.act = "update" => RowById(e.table, e.id).status = e.new_status)

\* A sweep ended in which a Provider A check failed and a Provider B or C
\* order was updated.
C4_Witness ==
    /\ SweepDone
    /\ AllVPFailed
    /\ \E e \in swept.checks : e.table = "vp_orders"
    /\ \E e \in swept.checks :
            /\ e.table \in {"mg_orders", "jm_orders"}
            /\ e.act = "update"
            /\ RowById(e.table, e.id).status = e.new_status

----------------------------------------------------------------------------
\* Properties of the Order Store contract.

\* C5 (P4, Provider C identity): updateOrderJM and deleteOrderJM called with
\* (order_id, message_id) leave every row with another pair as it was and in
\* its place, whether or not it shares the order_id; the update sets the given
\* columns of the rows with that pair and the delete leaves none of them.
C5_JMIdentity ==
    [][last_op'.op \in {"updateOrderJM", "deleteOrderJM"} =>
        LET call == last_op'
            Other(row) == ~(row.order_id = call.order_id
                            /\ row.message_id = call.message_id)
            Keyed(row) == ~Other(row)
            before == db["jm_orders"]
            after == db'["jm_orders"]
        IN  /\ SelectSeq(after, Other) = SelectSeq(before, Other)
            /\ IF call.op = "deleteOrderJM"
               THEN SelectSeq(after, Keyed) = <<>>
               ELSE /\ Len(after) = Len(before)
                    /\ \A i \in 1..Len(before) :
                        Keyed(before[i]) =>
                            after[i] = SetRow(before[i], call.status,
                                              call.new_order_details)]_vars

\* An update keyed by a pair changed the status of one of two rows that share
\* an order_id and differ in message_id.
C5_Witness ==
    /\ last_op.op = "updateOrderJM"
    /\ last_op.status.given
    /\ \E i, j \in 1..Len(db["jm_orders"]) :
        LET r == db["jm_orders"][i]
            o == db["jm_orders"][j]
        IN  /\ r.order_id = last_op.order_id /\ r.message_id = last_op.message_id
            /\ o.order_id = r.order_id /\ o.message_id # r.message_id
            /\ r.status = last_op.status.value
            /\ o.status # r.status

----------------------------------------------------------------------------
\* Properties of order creation.

\* The request passed validation and names a provider.
Routed(hd) ==
    /\ Validate(hd.req) = NoResult
    /\ hd.req.products[1].name[1] \in ServiceCodes

\* A row of the provider's table holds the handle the handler obtained.
Stored(hd) ==
    LET t == TableOf(hd.req.products[1].name[1]) IN
    \E i \in 1..Len(db[t]) :
        /\ db[t][i].order_id = hd.order_id
        /\ (t = "jm_orders" => db[t][i].message_id = hd.message_id)

\* C6 (no order lost): when a request is answered whose order the provider
\* accepted, a row with the order's handle is in the provider's table, in
\* every execution, those in which the store insert fails included.
C6_NoOrderLost ==
    \A h \in Handlers :
        (handlers[h].pc = "done" /\ handlers[h].accepted) => Stored(handlers[h])

\* C7 (no double notification): a request that passes routing calls the
\* notifier once, and the call attempts delivery to each operator once,
\* failed deliveries included; a request that does not pass routing does not
\* call it; and no step of the scheduler touches a handler's notifications.
C7_NoDoubleNotification ==
    /\ [](\A h \in Handlers :
            LET hd == handlers[h] IN
            IF hd.pc # "idle" /\ Routed(hd)
            THEN /\ hd.calls = 1
                 /\ \A a \in 1..Len(TG_ADMINS) :
                        hd.attempts[a] = IF hd.pc = "notify" /\ a >= hd.i THEN 0 ELSE 1
            ELSE /\ hd.calls = 0
                 /\ \A a \in 1..Len(TG_ADMINS) : hd.attempts[a] = 0)
    /\ [][(pc' # pc \/ orders' # orders \/ chk' # chk) => handlers' = handlers]_vars

\* A routed request has been answered after every delivery failed.
C7_Witness ==
    \E h \in Handlers :
        /\ handlers[h].pc = "done"
        /\ Routed(handlers[h])
        /\ handlers[h].failed = Len(TG_ADMINS)
        /\ handlers[h].calls = 1
        /\ \A a \in 1..Len(TG_ADMINS) : handlers[h].attempts[a] = 1

C9_ResultReflectsOutcome ==
    \A h \in Handlers :
        LET hd == handlers[h] IN
        (hd.pc = "done" /\ ~hd.req.has_test) =>
            IF hd.accepted /\ hd.inserts = 1
            THEN hd.result.status = "success" /\ "handle" \in DOMAIN hd.result.data
            ELSE hd.result.status = "error"

----------------------------------------------------------------------------
\* Properties of request validation.

\* A required field of the request is missing or empty.
MissingIdentity(d) == d.Input = "" \/ d.Zone_ID = "" \/ d.Email = ""
MissingProductField(d) ==
    \/ ~d.has_payment
    \/ d.products = <<>>
    \/ d.products[1].name = <<>>
    \/ d.products[1].quantity = 0
    \/ d.products[1].price = ""
    \/ Len(d.products[1].name) < 3

\* C10 (validation): an order request in which user_id, zone_id or email is
\* missing or empty is answered "error" with message "missing parameters";
\* one that has the three but lacks the payment block, the products, the
\* first product's name, quantity or price, or the three segments of the
\* name, is answered "error" with the message of that check.
C10_MissingParameters ==
    \A h \in Handlers :
        LET hd == handlers[h]
            d == hd.req
        IN  (hd.pc = "done" /\ ~d.has_test) =>
            /\ MissingIdentity(d) =>
                hd.result = JSONResponse(400, "error", "missing parameters", d)
            /\ (~MissingIdentity(d) /\ MissingProductField(d)) =>
                /\ hd.result.status = "error"
                /\ hd.result.message =
                    IF ~d.has_payment THEN "request data"
                    ELSE IF d.products = <<>> THEN "missing products"
                    ELSE IF Len(d.products[1].name) \in {1, 2}
                            /\ d.products[1].quantity # 0 /\ d.products[1].price # ""
                    THEN "missing product info"
                    ELSE "missing product parameters"

\* C10 as stated: whichever required field is missing, the message is
\* "missing parameters".
C10_AnyMissingField ==
    \A h \in Handlers :
        LET hd == handlers[h] IN
        (/\ hd.pc = "done"
         /\ ~hd.req.has_test
         /\ (MissingIdentity(hd.req) \/ MissingProductField(hd.req)))
        => (hd.result.status = "error" /\ hd.result.message = "missing parameters")

\* A request without Zone_ID, complete otherwise, was answered
\* "missing parameters".
C10_Witness ==
    \E h \in Handlers :
        /\ handlers[h].pc = "done"
        /\ handlers[h].req = [GoodRequest("VP", 1) EXCEPT !.Zone_ID = ""]
        /\ handlers[h].result.message = "missing parameters"
        /\ handlers[h].result.status_code = 400

\* The request is one the validation of skyshop_api rejects.
Rejected(d) == ~d.has_test /\ (MissingIdentity(d) \/ MissingProductField(d))

\* C11 (validation errors have no side effects): a request rejected by
\* validation is answered "error" in the step that receives it, without a call
\* of the notifier, a delivery attempt, a call of an adapter, a provider POST
\* or a store insert, and that step leaves every table as it was.
C11_ValidationNoSideEffects ==
    /\ [](\A h \in Handlers :
            LET hd == handlers[h] IN
            (hd.pc # "idle" /\ Rejected(hd.req)) =>
                /\ hd.pc = "done"
                /\ hd.result.status = "error"
                /\ hd.response = NoResponse
                /\ hd.calls = 0 /\ hd.failed = 0
                /\ \A a \in 1..Len(TG_ADMINS) : hd.attempts[a] = 0
                /\ hd.creates = 0 /\ hd.posts = 0
                /\ hd.insert_calls = 0 /\ hd.inserts = 0)
    /\ [][\A h \in Handlers :
            (handlers[h].pc = "idle" /\ handlers'[h].pc # "idle"
             /\ Rejected(handlers'[h].req)) => db' = db]_vars

\* A request without Email, complete otherwise, was answered
\* "missing parameters" with no POST and no notification.
C11_Witness ==
    \E h \in Handlers :
        /\ handlers[h].pc = "done"
        /\ handlers[h].req = [GoodRequest("VP", 1) EXCEPT !.Email = ""]
        /\ handlers[h].result.message = "missing parameters"
        /\ handlers[h].posts = 0
        /\ handlers[h].calls = 0
        /\ db["vp_orders"] = <<>>

\* The request passes validation and names none of the three providers.
RoutingError(d) ==
    /\ ~d.has_test
    /\ ~MissingIdentity(d)
    /\ ~MissingProductField(d)
    /\ d.products[1].name[1] \notin ServiceCodes

Recognized(d) ==
    /\ ~d.has_test
    /\ ~MissingIdentity(d)
    /\ ~MissingProductField(d)
    /\ d.products[1].name[1] \in ServiceCodes

Notified(hd) == hd.calls = 1 /\ \A a \in 1..Len(TG_ADMINS) : hd.attempts[a] = 1

\* C13 (notification before creation): the notifier has been called before
\* the step that calls the adapter's create_order, and once create_order has
\* been called the delivery to every operator has been attempted; a request
\* with a recognized code that has been answered was notified whether the
\* creation succeeded, was rejected or failed.
C13_NotificationBeforeCreate ==
    /\ [](\A h \in Handlers :
            LET hd == handlers[h] IN
            /\ hd.creates >= 1 => Notified(hd)
            /\ (hd.pc = "done" /\ Recognized(hd.req)) => (Notified(hd) /\ hd.creates = 1))
    /\ [][\A h \in Handlers :
            handlers'[h].creates > handlers[h].creates =>
                /\ handlers[h].calls = 1
                /\ \A a \in 1..(Len(TG_ADMINS) - 1) : handlers[h].attempts[a] = 1]_vars

\* A request with a recognized code was notified, then its create POST raised.
C13_Witness ==
    \E h \in Handlers :
        /\ handlers[h].pc = "done"
        /\ Recognized(handlers[h].req)
        /\ Notified(handlers[h])
        /\ handlers[h].posts = 1
        /\ handlers[h].reply.exc
        /\ handlers[h].inserts = 0

\* C14 (no retry): a request causes at most one call of the notifier, one call
\* of an adapter's create_order, one create POST and one store insert, whatever
\* the outcome and however many products it lists; a step changes the tables
\* only by the one insert of a handler, which adds one row.
C14_NoRetry ==
    /\ [](\A h \in Handlers :
            LET hd == handlers[h] IN
            /\ hd.calls <= 1
            /\ hd.creates <= 1
            /\ hd.posts <= 1
            /\ hd.insert_calls <= 1
            /\ hd.inserts <= hd.insert_calls)
    /\ [][\A h \in Handlers :
            /\ handlers'[h].posts > handlers[h].posts => handlers[h].posts = 0
            /\ handlers'[h].insert_calls > handlers[h].insert_calls
                    => handlers[h].insert_calls = 0
            /\ db' # db =>
                    /\ \E g \in Handlers :
                            handlers[g].pc = "insert" /\ handlers'[g].inserts = 1
                    /\ TotalRows' = TotalRows + 1]_vars

\* A request listing two products was answered after one POST and one insert.
C14_Witness ==
    \E h \in Handlers :
        /\ handlers[h].pc = "done"
        /\ Len(handlers[h].req.products) = 2
        /\ handlers[h].creates = 1
        /\ handlers[h].posts = 1
        /\ handlers[h].insert_calls = 1
        /\ handlers[h].inserts = 1
        /\ TotalRows = 1

\* C15 (notifier fan-out): a delivery attempt to an operator, delivered or
\* failed, is followed by the attempt to the next operator, and the attempt
\* to the last operator by the call of the adapter's create_order; so every
\* operator is attempted once and the creation goes on when every delivery
\* failed.
C15_NotifierFanOut ==
    /\ [][\A h \in Handlers :
            handlers[h].pc = "notify" /\ handlers'[h] # handlers[h] =>
                LET hd == handlers[h]
                    nx == handlers'[h]
                IN  /\ nx.attempts[hd.i] = hd.attempts[hd.i] + 1
                    /\ nx.failed \in {hd.failed, hd.failed + 1}
                    /\ IF hd.i < Len(TG_ADMINS)
                       THEN nx.pc = "notify" /\ nx.i = hd.i + 1 /\ nx.creates = 0
                       ELSE nx.pc \in {"http", "done"} /\ nx.creates = 1]_vars
    /\ [](\A h \in Handlers :
            handlers[h].pc \in {"http", "insert"} =>
                \A a \in 1..Len(TG_ADMINS) : handlers[h].attempts[a] = 1)

\* Every delivery failed and the order was created and stored.
C15_Witness ==
    \E h \in Handlers :
        /\ handlers[h].pc = "done"
        /\ handlers[h].failed = Len(TG_ADMINS)
        /\ \A a \in 1..Len(TG_ADMINS) : handlers[h].attempts[a] = 1
        /\ handlers[h].creates = 1
        /\ handlers[h].accepted
        /\ handlers[h].inserts = 1
        /\ TotalRows >= 1

----------------------------------------------------------------------------
\* Properties of the adapters.

\* A value an adapter's create_order returns: a handle or a tagged dict.
TaggedResult(r) == "handle" \in DOMAIN r \/ "status" \in DOMAIN r

\* C16 (adapters never raise): every call of an adapter's create_order ends
\* with a handle or a tagged dict as its return value, and every call of an
\* adapter's check_order ends with a return value (orderData), also when
\* signing the payload fails; none ends by raising to service_create_order
\* or to check_order_status.
C16_AdaptersNeverRaise ==
    /\ \A h \in Handlers :
            (handlers[h].pc = "done" /\ handlers[h].creates >= 1)
            => TaggedResult(handlers[h].response)
    /\ chk.table # "" => chk.orderData # NoBody

\* The provider answered the create POST with HTTP 200 and a success
\* discriminator that is present and false.
FalseDiscriminator(code, reply) ==
    /\ ~reply.exc
    /\ reply.status_code = 200
    /\ CASE code = "VP" -> "result" \in DOMAIN reply.body /\ reply.body.result = FALSE
          [] code = "MG" ->
                "status_bool" \in DOMAIN reply.body /\ reply.body.status_bool = FALSE
          [] code = "JM" ->
                "code" \in DOMAIN reply.body /\ reply.body.code # "APPLY_SUCCESS"

\* C17 (provider rejection): when the provider answers the create POST with
\* HTTP 200 and a false success discriminator, the adapter returns the dict
\* {status "warning", message "order creation failed", data: the provider's
\* payload}, not the response of an except clause, and no insert is called:
\* the step leaves the tables as they were.
C17_ProviderRejection ==
    /\ [](\A h \in Handlers :
            LET hd == handlers[h] IN
            (/\ hd.pc = "done"
             /\ hd.posts = 1
             /\ FalseDiscriminator(hd.req.products[1].name[1], hd.reply))
            => /\ hd.response = [status |-> "warning",
                                 message |-> "order creation failed",
                                 data |-> hd.reply.body]
               /\ ~hd.accepted
               /\ hd.insert_calls = 0
               /\ hd.inserts = 0)
    /\ [][\A h \in Handlers :
            (/\ handlers[h].pc = "http"
             /\ handlers'[h].pc # "http"
             /\ FalseDiscriminator(handlers[h].req.products[1].name[1],
                                   handlers'[h].reply))
            => (db' = db /\ handlers'[h].pc = "done")]_vars

\* Provider A rejected an order: the result carries its payload and no row
\* was inserted.
C17_Witness ==
    \E h \in Handlers :
        /\ handlers[h].pc = "done"
        /\ handlers[h].posts = 1
        /\ handlers[h].reply = Http(200, [result |-> FALSE, message |-> "rejected"])
        /\ handlers[h].response.status = "warning"
        /\ handlers[h].response.data = [result |-> FALSE, message |-> "rejected"]
        /\ TotalRows = 0

----------------------------------------------------------------------------
\* Properties of the scheduler loop.

\* The order a status query returned has been checked in this sweep.
Checked(q) == \E e \in swept.checks : e.table = q.table /\ e.id = q.id

\* The order is still to be visited, or its update is being awaited.
Pending(q) ==
    \/ \E i \in 1..Len(orders[q.table]) : orders[q.table][i].id = q.id
    \/ pc = "update" /\ chk.table = q.table /\ chk.id = q.id

\* The check of an order ended in an except clause.
Failed(e) == e.act \in {"raise", "fault"}

TableRank(t) ==
    CASE t = "vp_orders" -> 1
      [] t = "mg_orders" -> 2
      [] t = "jm_orders" -> 3

\* C18 (per-order fault isolation): in a sweep whose queries succeeded no
\* order the queries returned is dropped: it is checked, or still to be
\* visited, and at the end of the sweep every one has been checked, whatever
\* checks raised or updates faulted before it; a step in which an order's
\* check raises or its update faults leaves the loop at the next order, or at
\* the sleep when none remains.
C18_FaultIsolation ==
    /\ [](~swept.aborted =>
            \A q \in swept.queried :
                /\ Checked(q) \/ Pending(q)
                /\ pc = "sleep" => Checked(q))
    /\ [][(/\ chk' # chk
           /\ chk'.table # ""
           /\ (chk'.act = "raise" \/ chk'.raised))
          => /\ pc' = IF Current(orders') = "" THEN "sleep" ELSE "check"
             /\ \A t \in Tables :
                    orders'[t] = IF pc = "check" /\ t = Current(orders)
                                 THEN Tail(orders[t]) ELSE orders[t]]_vars

\* A sweep ended in which the update of an order faulted and the order after
\* it, of the same provider, was checked and updated.
C18_Witness ==
    /\ SweepDone
    /\ \E e1, e2 \in swept.checks :
            /\ e1.act = "fault"
            /\ e2.table = e1.table
            /\ e2.id > e1.id
            /\ e2.act = "update"
            /\ RowById(e1.table, e1.id).status = Checkable(e1.table)
            /\ RowById(e2.table, e2.id).status = e2.new_status

\* C19 (the loop never ends): the task is always at one of the awaits of the
\* loop; the sleep ends and a new sweep starts infinitely often, in every
\* execution, those in which the status queries raise in every sweep
\* included; a sweep starts only from the sleep, a sweep can end only in the
\* sleep, and the sleep is followed by the start of the next sweep.
C19_LoopNeverTerminates ==
    /\ [](pc \in {"query_vp", "query_mg", "query_jm", "check", "update", "sleep"})
    /\ []<><<Sleep>>_vars
    /\ []<>(pc = "sleep")
    /\ [][(pc' = "query_vp" /\ pc # "query_vp") => pc = "sleep"]_vars
    /\ [][(pc = "sleep" /\ pc' # "sleep") => pc' = "query_vp"]_vars
    /\ [][(pc # "sleep" /\ pc' \notin {"query_mg", "query_jm", "check", "update"})
            => pc' = "sleep"]_vars

\* A sweep was ended by a failing status query, the task slept and is at the
\* start of the next sweep.
C19_Witness ==
    /\ pc = "query_vp"
    /\ swept.aborted
    /\ TotalRows >= 1

IdsOf(list) == {list[i].id : i \in 1..Len(list)}

\* The rows of table t whose stored status is the provider's checkable one.
CheckableIds(t) ==
    {db[t][i].id : i \in {j \in 1..Len(db[t]) : db[t][j].status = Checkable(t)}}

\* The orders check_order has been called for in the current sweep.
CheckedOrders ==
    {[table |-> e.table, id |-> e.id] : e \in swept.checks}
    \cup (IF chk.table = "" THEN {} ELSE {[table |-> chk.table, id |-> chk.id]})

\* C20 (only checkable orders are checked): each status query hands the loops
\* the rows whose stored status is then the provider's checkable status (A
\* "waiting", B "processing", C "waiting") and no other row; check_order is
\* called only for the head of those lists, so every order checked in a sweep
\* was returned by that sweep's query with the checkable status, and a row
\* stored with another status is not checked.
C20_OnlyCheckable ==
    /\ [](\A c \in CheckedOrders :
            \E q \in swept.queried :
                /\ q.table = c.table
                /\ q.id = c.id
                /\ q.row.status = Checkable(c.table))
    /\ [][/\ (pc = "query_vp" /\ pc' = "query_mg")
                => IdsOf(orders'.vp_orders) = CheckableIds("vp_orders")
          /\ (pc = "query_mg" /\ pc' = "query_jm")
                => IdsOf(orders'.mg_orders) = CheckableIds("mg_orders")
          /\ (pc = "query_jm" /\ ~swept'.aborted)
                => IdsOf(orders'.jm_orders) = CheckableIds("jm_orders")
          /\ (pc = "check" /\ chk' # chk)
                => /\ chk'.table = Current(orders)
                   /\ chk'.id = Head(orders[Current(orders)]).id
          /\ \A t \in Tables : IdsOf(orders'[t]) \subseteq
                IdsOf(orders[t]) \cup
                    (IF pc \in {"query_vp", "query_mg", "query_jm"}
                     THEN CheckableIds(t) ELSE {})]_vars

\* A sweep ended that checked a Provider A order stored as "waiting" and did
\* not check another Provider A order, stored with a status that is not.
C20_Witness ==
    /\ SweepDone
    /\ \E e \in swept.checks : e.table = "vp_orders"
    /\ \E i \in 1..Len(db["vp_orders"]) :
            /\ db["vp_orders"][i].status = OtherStatus("vp_orders")
            /\ db["vp_orders"][i].order_details = Dumps(NoBody)
            /\ \A c \in CheckedOrders :
                    ~(c.table = "vp_orders" /\ c.id = db["vp_orders"][i].id)

----------------------------------------------------------------------------
\* Invariants of the stored orders.

\* C21 (status vocabulary): the status of every stored row is the pending
\* status its provider's rows are created with or a member of the provider's
\* vocabulary; a step changes the status of a row only as the update the
\* scheduler awaits, and the status it writes is in the vocabulary.
C21_StatusVocabulary ==
    /\ [](\A t \in Tables : \A i \in 1..Len(db[t]) :
            db[t][i].status \in {Checkable(t)} \cup Statuses(t))
    /\ [][\A t \in Tables : \A i \in 1..Len(db[t]) :
            (i <= Len(db'[t]) /\ db'[t][i].status # db[t][i].status)
            => /\ pc = "update"
               /\ cur.table = t
               /\ db'[t][i].status = cur.status
               /\ cur.status \in Statuses(t)]_vars

\* A sweep ended in which one check read a status outside the vocabulary,
\* which was not written, and another wrote a status of the vocabulary.
C21_Witness ==
    /\ SweepDone
    /\ \E e \in swept.checks :
            /\ e.new_status = UnknownStatus
            /\ e.act = "skip"
            /\ RowById(e.table, e.id).status = Checkable(e.table)
    /\ \E e \in swept.checks :
            /\ e.act = "update"
            /\ e.new_status \in Terminal(e.table)
            /\ RowById(e.table, e.id).status = e.new_status

\* C22 (handle uniqueness): no two rows of the Provider A table or of the
\* Provider B table hold the same order_id, and no two rows of the Provider C
\* table the same (order_id, message_id), also when a provider returns one
\* identifier for two creation requests.
C22_HandleUniqueness ==
    \A t \in Tables : \A i, j \in 1..Len(db[t]) :
        (/\ db[t][i].order_id = db[t][j].order_id
         /\ (t = "jm_orders" => db[t][i].message_id = db[t][j].message_id))
        => i = j

\* The columns of a row a sweep may not change.
Frame(row) == [row EXCEPT !.status = "", !.order_details = Dumps(NoBody)]

SchedulerActs == pc' # pc \/ orders' # orders \/ chk' # chk \/ cur' # cur

\* C23 (lifecycle frame): a step of the scheduler leaves every table with the
\* same rows in the same places (none inserted, none deleted), and each row
\* with its id, user_id, zone_id, quantity, price, product, api_name,
\* order_id, message_id and email_user; only status and order_details change,
\* and only in the step that executes an update.
C23_LifecycleFrame ==
    [][SchedulerActs =>
        /\ \A t \in Tables :
                /\ Len(db'[t]) = Len(db[t])
                /\ \A i \in 1..Len(db[t]) : Frame(db'[t][i]) = Frame(db[t][i])
        /\ db' # db => pc = "update"]_vars

\* A sweep ended that wrote a new status and new details to a row and left a
\* second row, of another provider, as it was.
C23_Witness ==
    /\ SweepDone
    /\ TotalRows = 2
    /\ \E e \in swept.checks :
            /\ e.act = "update"
            /\ RowById(e.table, e.id).status = e.new_status
            /\ RowById(e.table, e.id).status # Checkable(e.table)
            /\ RowById(e.table, e.id).order_details # Dumps(NoBody)
            /\ RowById(e.table, e.id).product = "Gift Card"
            /\ \E u \in Tables \ {e.table} :
                    /\ Len(db[u]) = 1
                    /\ db[u][1].order_details = Dumps(NoBody)

\* C24 (terminal stability): a row whose stored status is not its provider's
\* checkable status keeps its status and its order_details in every later
\* step of the scheduler, also when two rows of Provider A or B share an
\* order_id and the provider's answers to their checks differ.
C24_TerminalStability ==
    [][SchedulerActs =>
        \A t \in Tables : \A i \in 1..Len(db[t]) :
            db[t][i].status # Checkable(t)
            => /\ i <= Len(db'[t])
               /\ db'[t][i].status = db[t][i].status
               /\ db'[t][i].order_details = db[t][i].order_details]_vars

----------------------------------------------------------------------------
\* Shutdown: shutdown_event cancels the scheduler task and awaits it.  The
\* store is closed first (close_db), so store calls made before the
\* cancellation may raise: the raised branches of the scheduler's steps.

Cancelling == {"cancelling", "cancelled"}

\* check_order_task.cancel(): the task is marked, wherever it is suspended.
CancelTask ==
    /\ pc \notin Cancelling
    /\ pc' = "cancelling"
    /\ UNCHANGED <<db, orders, cur, chk, swept>>
    /\ UNCHANGED HandlerVars

\* An except clause of the loop body that catches the cancellation and goes
\* on with the next order.
UnwindSwallowed(applied) ==
    /\ pc = "cancelling"
    /\ (applied => cur # NoCur)
    /\ db' = IF applied THEN [db EXCEPT ![cur.table] = UpdateRow(cur)] ELSE db
    /\ pc' = AfterOrder(orders)
    /\ cur' = NoCur
    /\ UNCHANGED <<orders, chk, swept>>
    /\ UNCHANGED HandlerVars

\* The task resumes with CancelledError at its await.  CancelledError is not
\* an Exception, so no except clause of check_order_status catches it: the
\* task ends and await check_order_task returns into except CancelledError.
\* An update the store was executing is either applied whole (one UPDATE
\* statement sets status and order_details) or not at all.
Unwind(applied) ==
    /\ pc = "cancelling"
    /\ (applied => cur # NoCur)
    /\ db' = IF applied THEN [db EXCEPT ![cur.table] = UpdateRow(cur)] ELSE db
    /\ pc' = "cancelled"
    /\ cur' = NoCur
    /\ UNCHANGED <<orders, chk, swept>>
    /\ UNCHANGED HandlerVars

NextShutdown ==
    \/ SchedulerStep
    \/ CancelTask
    \/ \E applied \in BOOLEAN : Unwind(applied)

\* The event loop resumes a cancelled task.
SpecShutdown ==
    /\ InitSweep
    /\ [][NextShutdown]_vars
    /\ WF_vars(\E applied \in BOOLEAN : Unwind(applied))

\* The rows of a table whose status or order_details a step changes.
Written(t) ==
    {i \in 1..Len(db[t]) : i > Len(db'[t]) \/ db'[t][i] # db[t][i]}

\* C25: once the scheduler task is cancelled it starts no sweep, checks no
\* order and issues no update, the task ends so that shutdown goes on, and
\* every row an update changed, an update in flight at the cancellation
\* included, received the new status and the new order_details together.
C25_GracefulCancellation ==
    /\ [][(pc \in Cancelling)
            => /\ pc' \in Cancelling
               /\ orders' = orders /\ chk' = chk /\ swept' = swept
               /\ (db' # db => pc = "cancelling" /\ cur # NoCur)]_vars
    /\ [][pc = "cancelled" => pc' = "cancelled" /\ db' = db]_vars
    /\ (pc = "cancelling") ~> (pc = "cancelled")
    /\ [][\A t \in Tables :
            /\ Len(db'[t]) = Len(db[t])
            /\ \A i \in Written(t) :
                  /\ cur.table = t
                  /\ db'[t][i].status = cur.status
                  /\ db'[t][i].order_details = cur.new_order_details]_vars

\* The task was cancelled in the middle of a sweep: an order was checked and
\* updated, another one was still waiting for its check.
C25_Witness ==
    /\ pc = "cancelled"
    /\ Current(orders) # ""
    /\ \E e \in swept.checks : e.act = "update"

----------------------------------------------------------------------------
\* A Provider A answer to a status check whose result discriminator is false.
ResultFalse(reply) ==
    /\ ~reply.exc
    /\ reply.status_code = 200
    /\ "result" \in DOMAIN reply.body
    /\ reply.body.result = FALSE

\* C26: when Provider A answers a status check with a false result, the
\* check ends without an update being issued, the store is as it was, and
\* the scheduler goes on with the next order of the sweep (or sleeps when
\* none is left).
C26_ResultFalseNoUpdate ==
    [][(/\ pc = "check"
        /\ Current(orders) = "vp_orders"
        /\ chk' # chk
        /\ ResultFalse(chk'.reply))
        => /\ db' = db
           /\ cur' = NoCur
           /\ orders'["vp_orders"] = Tail(orders["vp_orders"])
           /\ pc' = IF Current(orders') = "" THEN "sleep" ELSE "check"]_vars

\* A false result was received for a Provider A order, its row still waits,
\* and the next order of the sweep is about to be checked.
C26_Witness ==
    /\ pc = "check"
    /\ chk.table = "vp_orders"
    /\ ResultFalse(chk.reply)
    /\ \E i \in 1..Len(db["vp_orders"]) :
          /\ db["vp_orders"][i].id = chk.id
          /\ db["vp_orders"][i].status = "waiting"
    /\ \E e \in swept.checks : e.id = chk.id /\ e.table = "vp_orders" /\ e.act = "skip"

----------------------------------------------------------------------------
\* A MooGold answer to a status check whose top-level order_status belongs
\* to MG_STATUSES.
VocabularyStatusMG(reply) ==
    /\ ~reply.exc
    /\ reply.status_code = 200
    /\ "order_status" \in DOMAIN reply.body
    /\ reply.body.order_status \in MG_STATUSES

\* C27: whenever MooGold answers the check of an order with a top-level
\* order_status of MG_STATUSES, whichever member it is, the scheduler issues
\* the update of that order with this status and the serialized response,
\* and once the update has returned the row holds both.
C27_MooGoldPersistsVocabulary ==
    /\ [][(/\ pc = "check"
           /\ Current(orders) = "mg_orders"
           /\ chk' # chk
           /\ VocabularyStatusMG(chk'.reply))
           => /\ pc' = "update"
              /\ cur'.table = "mg_orders"
              /\ cur'.order_id = chk'.order_id
              /\ cur'.status = chk'.reply.body.order_status
              /\ cur'.new_order_details = Dumps(chk'.reply.body)]_vars
    /\ []((/\ chk.table = "mg_orders"
           /\ chk.done /\ ~chk.raised
           /\ VocabularyStatusMG(chk.reply))
          => \E i \in 1..Len(db["mg_orders"]) :
                /\ db["mg_orders"][i].id = chk.id
                /\ db["mg_orders"][i].status = chk.reply.body.order_status
                /\ db["mg_orders"][i].order_details = Dumps(chk.reply.body))

----------------------------------------------------------------------------
\* C28: whenever the scheduler issues a Jollymax update, the answer to the
\* order's check was a response with code APPLY_SUCCESS, the status to write
\* is the data.status of that response and the order_details to write is
\* the serialization of that response; no other answer and no failure
\* result of the adapter leads to an update.
C28_JollymaxPersistsNestedStatus ==
    (pc = "update" /\ cur.table = "jm_orders")
    => /\ ~chk.reply.exc
       /\ chk.reply.status_code = 200
       /\ "code" \in DOMAIN chk.reply.body
       /\ chk.reply.body.code = "APPLY_SUCCESS"
       /\ "data" \in DOMAIN chk.reply.body
       /\ cur.status = chk.reply.body.data.status
       /\ cur.new_order_details = Dumps(chk.reply.body)

----------------------------------------------------------------------------
\* C29: the status query of one provider, failed or not, is followed by the
\* status queries of the providers after it in the same sweep, and it
\* leaves the orders already listed for the other providers to be checked.
C29_IndependentSweeps ==
    [][/\ (pc = "query_vp" /\ pc' # pc) => pc' = "query_mg"
       /\ (pc = "query_mg" /\ pc' # pc)
            => pc' = "query_jm" /\ orders'["vp_orders"] = orders["vp_orders"]
       /\ (pc = "query_jm" /\ pc' # pc)
            => /\ orders'["vp_orders"] = orders["vp_orders"]
               /\ orders'["mg_orders"] = orders["mg_orders"]
               /\ pc' = "sleep" => orders["vp_orders"] = <<>> /\ orders["mg_orders"] = <<>>]_vars

----------------------------------------------------------------------------
\* The sweeps of a task that is not cancelled and whose store calls all
\* return: no status query and no update raises.  The provider calls return
\* whatever the providers answer, failures included.

NextReturning ==
    \/ QueryVP(FALSE)
    \/ QueryMG(FALSE)
    \/ QueryJM(FALSE)
    \/ \E reply \in VPCheckReplies \cup MGCheckReplies \cup JMCheckReplies :
         \E key_ok \in BOOLEAN : Check(reply, key_ok)
    \/ Update(FALSE)
    \/ Sleep

SpecSweepReturning == InitSweep /\ [][NextReturning]_vars /\ WF_vars(NextReturning)

\* The row id of table t is stored with the provider's checkable status.
StoredCheckable(t, id) == id \in CheckableIds(t)

\* check_order has been called with the handle of the row id of table t, and
\* no other order has been checked since.
Checking(t, id) ==
    /\ chk.table = t
    /\ \E i \in 1..Len(db[t]) :
          /\ db[t][i].id = id
          /\ db[t][i].order_id = chk.order_id
          /\ t = "jm_orders" => db[t][i].message_id = chk.message_id

\* C30: sweeps start again and again; when a sweep has made its first
\* query no order has been checked in it yet, and every order stored with
\* the checkable status at that moment is checked afterwards; a sweep ends
\* only when every order its queries returned has been checked, so an order
\* that keeps the checkable status is checked in every sweep; and an order
\* either leaves the checkable status again and again or is checked again
\* and again.
C30_FairFullRescan ==
    /\ []<>(pc = "query_mg")
    /\ [](pc = "query_mg" => chk = NoChk /\ swept.checks = {})
    /\ \A t \in Tables : \A id \in 1..MaxSweepRows :
          (pc = "query_mg" /\ StoredCheckable(t, id)) ~> Checking(t, id)
    /\ [](pc = "sleep" => \A q \in swept.queried : Checked(q))
    /\ \A t \in Tables : \A id \in 1..MaxSweepRows :
          []<>(~StoredCheckable(t, id)) \/ []<>Checking(t, id)

\* A sweep has ended in which an order was checked without an update, the
\* order is still stored with the checkable status, and the next sweep is
\* about to start with another checkable order beside it.
C30_Witness ==
    /\ pc = "query_vp"
    /\ \E e \in swept.checks :
          /\ e.act = "skip"
          /\ StoredCheckable(e.table, e.id)
          /\ \E t \in Tables : \E id \in CheckableIds(t) : <<t, id>> # <<e.table, e.id>>

----------------------------------------------------------------------------
\* The step appends one row to table t and changes nothing else of the store.
Inserts(t) ==
    /\ Len(db'[t]) = Len(db[t]) + 1
    /\ \A i \in 1..Len(db[t]) : db'[t][i] = db[t][i]
    /\ \A u \in Tables \ {t} : db'[u] = db[u]

\* The step writes rows of the handle being updated and no other row.
UpdatesOneOrder ==
    /\ pc = "update"
    /\ \A t \in Tables :
          /\ Len(db'[t]) = Len(db[t])
          /\ \A i \in 1..Len(db[t]) :
                db'[t][i] # db[t][i]
                => /\ t = cur.table
                   /\ db[t][i].order_id = cur.order_id
                   /\ t = "jm_orders" => db[t][i].message_id = cur.message_id

\* C31: with creations interleaved with a running sweep, every step that
\* changes the store is one store operation applied to the store as it is:
\* either an insert, which appends a row and changes no existing row, or the
\* update of one order, which changes no row of a different handle.  The
\* store is therefore at any moment the result of applying the creations and
\* updates made so far one after the other.
C31_OrderIndependence ==
    [][db' # db => (UpdatesOneOrder \/ \E t \in Tables : Inserts(t))]_vars

\* A sweep updated one Provider A order while a creation stored another one,
\* with a different handle, which the sweep's query had not returned: the
\* new row has the status and details of its creation.
C31_Witness ==
    /\ Len(db["vp_orders"]) = 2
    /\ db["vp_orders"][1].order_id # db["vp_orders"][2].order_id
    /\ db["vp_orders"][1].status = "success"
    /\ db["vp_orders"][2].status = "waiting"
    /\ \E e \in swept.checks : e.table = "vp_orders" /\ e.id = db["vp_orders"][1].id /\ e.act = "update"
    /\ ~\E q \in swept.queried : q.table = "vp_orders" /\ q.id = db["vp_orders"][2].id

----------------------------------------------------------------------------
\* The table an update operation of the store writes.
UpdatedTable(op) ==
    CASE op = "updateOrderVP" -> "vp_orders"
      [] op = "updateOrderMG" -> "mg_orders"
      [] op = "updateOrderJM" -> "jm_orders"

\* The row carries the handle the store call names.
CallMatches(call, row) ==
    /\ row.order_id = call.order_id
    /\ call.op = "updateOrderJM" => row.message_id = call.message_id

\* C32: an update of the store keeps the rows of its table in number and
\* place; if status is omitted every row keeps its status, if
\* new_order_details is omitted every row keeps its order_details, and in
\* every case each row keeps all its other fields; the other tables are not
\* written; and when no row carries the handle nothing changes at all.
C32_UpdateContract ==
    [][last_op'.op \in {"updateOrderVP", "updateOrderMG", "updateOrderJM"} =>
        LET call == last_op'
            t == UpdatedTable(call.op)
        IN  /\ \A u \in Tables \ {t} : db'[u] = db[u]
            /\ Len(db'[t]) = Len(db[t])
            /\ \A i \in 1..Len(db[t]) :
                  /\ Frame(db'[t][i]) = Frame(db[t][i])
                  /\ ~call.status.given => db'[t][i].status = db[t][i].status
                  /\ ~call.new_order_details.given
                        => db'[t][i].order_details = db[t][i].order_details
            /\ (\A i \in 1..Len(db[t]) : ~CallMatches(call, db[t][i])) => db' = db]_vars

\* An update with status omitted wrote the order_details of the row that
\* carries the handle and left its status, beside a row of another handle.
C32_Witness ==
    /\ last_op.op = "updateOrderVP"
    /\ ~last_op.status.given
    /\ last_op.new_order_details.given
    /\ Len(db["vp_orders"]) = 2
    /\ \E i, j \in 1..2 :
          /\ db["vp_orders"][i].order_id = last_op.order_id
          /\ db["vp_orders"][i].order_details = last_op.new_order_details.value
          /\ db["vp_orders"][i].status = "waiting"
          /\ db["vp_orders"][j].order_id # last_op.order_id
          /\ db["vp_orders"][j].order_details = Dumps(NoBody)

----------------------------------------------------------------------------
\* The rows the status queries of the current sweep returned.
QueriedOrders == {[table |-> q.table, id |-> q.id] : q \in swept.queried}

\* The rows the loops of the current sweep have still to visit.
ListedOrders ==
    UNION {{[table |-> t, id |-> orders[t][i].id] : i \in 1..Len(orders[t])} : t \in Tables}

\* The rows stored at this moment.
StoredOrders ==
    UNION {{[table |-> t, id |-> db[t][i].id] : i \in 1..Len(db[t])} : t \in Tables}

\* C33: the orders a sweep checks or is still to check are rows its status
\* queries returned, so a row a creation inserts after the query of its
\* table is neither listed nor checked in that sweep, and a check of it is a
\* check of a later sweep; when a sweep whose three queries returned ends,
\* the rows it checked are exactly the rows the queries returned; and no
\* row is checked twice in a sweep: a row to be visited has not been
\* checked, and is listed once.
C33_SweepSnapshot ==
    /\ [](CheckedOrders \cup ListedOrders \subseteq QueriedOrders)
    /\ [](pc = "sleep" => CheckedOrders = QueriedOrders)
    /\ [](ListedOrders \cap CheckedOrders = {})
    /\ [](\A t \in Tables : \A i, j \in 1..Len(orders[t]) :
            orders[t][i].id = orders[t][j].id => i = j)
    /\ [][\A t \in Tables :
            Len(db'[t]) > Len(db[t])
            => /\ orders' = orders /\ swept' = swept /\ chk' = chk
               /\ [table |-> t, id |-> db'[t][Len(db'[t])].id] \notin StoredOrders]_vars
    /\ [][(swept'.queried # swept.queried /\ pc # "query_vp")
            => swept.queried \subseteq swept'.queried \/ swept'.aborted]_vars

\* A sweep has ended that checked a Provider A order, and a Provider A order
\* a creation inserted after the sweep's query waits, unchecked, for the
\* next sweep.
C33_Witness ==
    /\ SweepDone
    /\ \E e \in swept.checks : e.table = "vp_orders"
    /\ \E i \in 1..Len(db["vp_orders"]) :
          /\ db["vp_orders"][i].status = "waiting"
          /\ [table |-> "vp_orders", id |-> db["vp_orders"][i].id] \notin QueriedOrders
          /\ [table |-> "vp_orders", id |-> db["vp_orders"][i].id] \notin CheckedOrders

----------------------------------------------------------------------------
\* The life of the application: startup_event, the scheduler task, and
\* shutdown_event.  app is "starting" (startup_event awaits connect_db),
\* "failed" (connect_db raised), "running", "closing" (shutdown_event awaits
\* close_db) or "closed" (close_db has returned).

InitLifecycle ==
    /\ \E vp \in SweepTables("vp_orders"), mg \in SweepTables("mg_orders"),
          jm \in SweepTables("jm_orders") :
            /\ Len(vp) + Len(mg) + Len(jm) <= MaxSweepRows
            /\ db = [vp_orders |-> vp, mg_orders |-> mg, jm_orders |-> jm]
    /\ handlers = [h \in Handlers |-> IdleHandler]
    /\ pc = "not_created"
    /\ orders = NoOrders
    /\ cur = NoCur
    /\ uuid = 0
    /\ chk = NoChk
    /\ swept = NoSweep
    /\ last_op = NoCall
    /\ app = "starting"

\* startup_event: await db_manager.connect_db() returns and the scheduler
\* task is created, suspended at its first status query; or connect_db
\* raises and startup_event ends before create_task.
Startup(connected) ==
    /\ app = "starting"
    /\ app' = IF connected THEN "running" ELSE "failed"
    /\ pc' = IF connected THEN "query_vp" ELSE pc
    /\ UNCHANGED <<db, handlers, orders, cur, uuid, chk, swept, last_op>>

\* shutdown_event up to its first await: db_manager.close_db().
BeginClose ==
    /\ app = "running"
    /\ app' = "closing"
    /\ UNCHANGED <<db, handlers, pc, orders, cur, uuid, chk, swept, last_op>>

\* A shutdown_event that yields to the event loop between close_db and the
\* cancellation of the task.
EndCloseThenYield ==
    /\ app = "closing"
    /\ app' = "closed"
    /\ UNCHANGED <<db, handlers, pc, orders, cur, uuid, chk, swept, last_op>>

\* close_db returns into shutdown_event, which goes on without an await to
\* check_order_task.cancel() and then awaits the task.
EndClose ==
    /\ app = "closing"
    /\ app' = "closed"
    /\ pc' = "cancelling"
    /\ UNCHANGED <<db, handlers, orders, cur, uuid, chk, swept, last_op>>

\* The scheduler's steps while the application runs or the store is being
\* closed (a store call made then may raise), and the end of the cancelled
\* task.
NextLifecycle ==
    \/ \E connected \in BOOLEAN : Startup(connected)
    \/ BeginClose
    \/ EndClose
    \/ SchedulerStep
    \/ \E applied \in BOOLEAN : Unwind(applied)

SpecLifecycle == InitLifecycle /\ [][NextLifecycle]_vars

\* The scheduler is suspended in a call of the store or starts one.
AtStoreCall(p) == p \in {"query_vp", "query_mg", "query_jm", "update"}

\* C34: the scheduler task exists only once connect_db has returned; no
\* task is created when connect_db fails; once close_db has returned the
\* task is cancelled, and from then on the scheduler starts no status
\* query, no check and no update: its only step is the end of the task.
C34_StoreOpenForScheduler ==
    /\ [](app \in {"starting", "failed"} => pc = "not_created")
    /\ [](app = "closed" => pc \in Cancelling)
    /\ [][app = "closed"
            => /\ pc' \in Cancelling
               /\ orders' = orders /\ chk' = chk /\ swept' = swept
               /\ ~(AtStoreCall(pc') /\ pc' # pc)]_vars
    /\ [][(AtStoreCall(pc') /\ pc' # pc) => app' \in {"running", "closing"} /\ app # "closed"]_vars

\* close_db returned in the middle of a sweep and the task ended: an order
\* was still to be checked and no call was made for it.
C34_Witness ==
    /\ app = "closed"
    /\ pc = "cancelled"
    /\ Current(orders) # ""
    /\ \E e \in swept.checks : e.act \in {"update", "skip"}

----------------------------------------------------------------------------
\* A Provider A answer to a status check with result true and an empty data
\* list.
EmptyDataList(reply) ==
    /\ ~reply.exc
    /\ reply.status_code = 200
    /\ "result" \in DOMAIN reply.body
    /\ reply.body.result = TRUE
    /\ "data_list" \in DOMAIN reply.body
    /\ reply.body.data_list = <<>>

\* C35: when Provider A answers a status check with result true and an
\* empty data list, the check ends without an update being issued, the
\* store is as it was, and the scheduler goes on with the next order of the
\* sweep (or sleeps when none is left).
C35_EmptyDataListNoUpdate ==
    [][(/\ pc = "check"
        /\ Current(orders) = "vp_orders"
        /\ chk' # chk
        /\ EmptyDataList(chk'.reply))
        => /\ db' = db
           /\ cur' = NoCur
           /\ chk'.done
           /\ orders'["vp_orders"] = Tail(orders["vp_orders"])
           /\ pc' = IF Current(orders') = "" THEN "sleep" ELSE "check"]_vars

\* An empty data list was received for a Provider A order, its row still
\* waits, and the next order of the sweep is about to be checked.
C35_Witness ==
    /\ pc = "check"
    /\ chk.table = "vp_orders"
    /\ EmptyDataList(chk.reply)
    /\ \E i \in 1..Len(db["vp_orders"]) :
          /\ db["vp_orders"][i].id = chk.id
          /\ db["vp_orders"][i].status = "waiting"
          /\ db["vp_orders"][i].order_details = Dumps(NoBody)
    /\ \E e \in swept.checks : e.id = chk.id /\ e.table = "vp_orders" /\ e.act = "raise"

----------------------------------------------------------------------------
\* C36: a request whose body has a 'test' key is answered at once with
\* status code 200 and status "success", whatever its other fields are (a
\* complete order included): the handler goes from idle to done in one
\* step that leaves the store and the uuid counter as they are, and it has
\* made no call of the orchestrator, no delivery attempt, no provider POST
\* and no store insert.
C36_TestRequest ==
    /\ [](\A h \in Handlers :
            LET hd == handlers[h] IN
            (hd.pc # "idle" /\ hd.req.has_test) =>
                /\ hd.pc = "done"
                /\ hd.result.status_code = 200
                /\ hd.result.status = "success"
                /\ hd.response = NoResponse
                /\ hd.calls = 0 /\ hd.failed = 0
                /\ \A a \in 1..Len(TG_ADMINS) : hd.attempts[a] = 0
                /\ hd.creates = 0 /\ hd.posts = 0
                /\ hd.insert_calls = 0 /\ hd.inserts = 0)
    /\ [][\A h \in Handlers :
            (handlers[h].pc = "idle" /\ handlers'[h].pc # "idle"
             /\ handlers'[h].req.has_test)
            => db' = db /\ uuid' = uuid /\ handlers'[h].pc = "done"]_vars

\* A request that is a complete Provider A order and has a 'test' key was
\* answered with the success result; nothing was posted, stored or notified.
C36_Witness ==
    \E h \in Handlers :
        /\ handlers[h].pc = "done"
        /\ handlers[h].req = [GoodRequest("VP", 1) EXCEPT !.has_test = TRUE]
        /\ handlers[h].result.message = "testing request successfully"
        /\ handlers[h].posts = 0
        /\ handlers[h].calls = 0
        /\ \A a \in 1..Len(TG_ADMINS) : handlers[h].attempts[a] = 0
        /\ \A t \in Tables : db[t] = <<>>

----------------------------------------------------------------------------
\* The number a quantity written as a string stands for.
Number(str) == CASE str = "1" -> 1 [] str = "2" -> 2 [] OTHER -> 0

\* The quantity a create payload asks the provider for; 0 when the payload
\* names none.
RequestedQuantity(payload) ==
    IF "data" \notin DOMAIN payload THEN 0
    ELSE IF "quantity" \in DOMAIN payload.data THEN payload.data.quantity
    ELSE IF "quantity_str" \in DOMAIN payload.data THEN Number(payload.data.quantity_str)
    ELSE 0

\* C37: when a request is answered whose order the provider accepted, the
\* quantity of the create payload sent to the provider is the quantity of
\* the request's first product, and so is the quantity of every stored row
\* that holds the order's handle.
C37_QuantityPreserved ==
    \A h \in Handlers :
        LET hd == handlers[h] IN
        (hd.pc = "done" /\ hd.accepted)
        => /\ RequestedQuantity(hd.payload) = hd.req.products[1].quantity
           /\ LET t == TableOf(hd.req.products[1].name[1]) IN
              \A i \in 1..Len(db[t]) :
                  (/\ db[t][i].order_id = hd.order_id
                   /\ t = "jm_orders" => db[t][i].message_id = hd.message_id)
                  => db[t][i].quantity = hd.req.products[1].quantity

====
